---- MODULE Spec2Model ----
(***************************************************************************)
(* A model of the tag reader of Clementine                                 *)
(* (ext/libclementine-tagreader/tagreader.cpp): ReadFile, SaveFile,        *)
(* SaveSongStatisticsToFile, SaveSongRatingToFile and the helpers they     *)
(* call, over an abstract TagLib container.                                *)
(*                                                                         *)
(* Text is a sequence of one-character strings.  A C++ float is a record   *)
(* [neg, m, e] standing for (-1)^neg * m * 2^e with 2^23 <= m < 2^24 (or   *)
(* m = 0), so that the float/double comparisons of the rating codec are    *)
(* the ones the compiled code makes.                                       *)
(***************************************************************************)
EXTENDS Integers, Sequences, FiniteSets, TLC

(***************************************************************************)
(* Text                                                                    *)
(***************************************************************************)
DigitChars == <<"0", "1", "2", "3", "4", "5", "6", "7", "8", "9">>

IsDigit(c) == \E i \in 1..10 : DigitChars[i] = c

DigitVal(c) == (CHOOSE i \in 1..10 : DigitChars[i] = c) - 1

IsSpace(c) == c = " "

RECURSIVE DropLeadingSpace(_)
DropLeadingSpace(t) ==
    IF t # <<>> /\ IsSpace(Head(t)) THEN DropLeadingSpace(Tail(t)) ELSE t

RECURSIVE DropTrailingSpace(_)
DropTrailingSpace(t) ==
    IF t # <<>> /\ IsSpace(t[Len(t)])
    THEN DropTrailingSpace(SubSeq(t, 1, Len(t) - 1))
    ELSE t

\* QString::trimmed(): the text without leading and trailing whitespace.
Trimmed(t) == DropTrailingSpace(DropLeadingSpace(t))

\* QString::toLower() on the letters the model uses.
LowerChar(c) ==
    CASE c = "V" -> "v"
      [] c = "A" -> "a"
      [] c = "R" -> "r"
      [] OTHER -> c

ToLower(t) == [i \in 1..Len(t) |-> LowerChar(t[i])]

\* QString::indexOf(c): the 0-based position of the first c, or -1.
IndexOf(t, c) ==
    IF \E i \in 1..Len(t) : t[i] = c
    THEN (CHOOSE i \in 1..Len(t) : t[i] = c /\ \A j \in 1..(i - 1) : t[j] # c) - 1
    ELSE -1

\* QString::left(n) and TagLib::String::substr(0, n).
Left(t, n) == SubSeq(t, 1, IF n < Len(t) THEN n ELSE Len(t))

\* The length of the longest prefix of t made of digits.
RECURSIVE DigitPrefixLen(_)
DigitPrefixLen(t) ==
    IF t # <<>> /\ IsDigit(Head(t)) THEN 1 + DigitPrefixLen(Tail(t)) ELSE 0

\* The value of a sequence of digits (0 for the empty sequence).
RECURSIVE DigitsValue(_)
DigitsValue(t) ==
    IF t = <<>> THEN 0
    ELSE DigitsValue(SubSeq(t, 1, Len(t) - 1)) * 10 + DigitVal(t[Len(t)])

AllDigits(t) == \A i \in 1..Len(t) : IsDigit(t[i])

HasSign(t) == t # <<>> /\ Head(t) \in {"-", "+"}

Unsigned(t) == IF HasSign(t) THEN Tail(t) ELSE t

\* QString::toInt(): the whole text (surrounding whitespace ignored) must be
\* an optionally signed run of digits; anything else yields 0.
QStringToInt(t) ==
    LET s == Trimmed(t)
        u == Unsigned(s)
    IN  IF u # <<>> /\ AllDigits(u)
        THEN IF HasSign(s) /\ Head(s) = "-" THEN 0 - DigitsValue(u) ELSE DigitsValue(u)
        ELSE 0

\* TagLib::String::toInt(): wcstol, i.e. leading whitespace is skipped and the
\* longest optionally signed digit prefix is converted; no digits yields 0.
TStringToInt(t) ==
    LET s == DropLeadingSpace(t)
        u == Unsigned(s)
        v == DigitsValue(SubSeq(u, 1, DigitPrefixLen(u)))
    IN  IF HasSign(s) /\ Head(s) = "-" THEN 0 - v ELSE v

\* The decimal digits of a natural number, most significant first.
RECURSIVE NatDigits(_)
NatDigits(n) ==
    IF n < 10 THEN <<DigitChars[n + 1]>>
    ELSE NatDigits(n \div 10) \o <<DigitChars[(n % 10) + 1]>>

\* QString::number(int) and TagLib::String::number(int).
NumberInt(n) == IF n < 0 THEN <<"-">> \o NatDigits(0 - n) ELSE NatDigits(n)

(***************************************************************************)
(* Decimal numbers: [ok, neg, n, d] stands for (-1)^neg * n / d, d a power *)
(* of ten.  It is what a text parses to before it is rounded to a float.   *)
(***************************************************************************)
RECURSIVE Pow10(_)
Pow10(k) == IF k = 0 THEN 1 ELSE 10 * Pow10(k - 1)

RECURSIVE Pow2(_)
Pow2(k) == IF k = 0 THEN 1 ELSE 2 * Pow2(k - 1)

NoDecimal == [ok |-> FALSE, neg |-> FALSE, n |-> 0, d |-> 1]

\* The number a text denotes when the whole text is [sign] digits [. digits]
\* with at least one digit; ok = FALSE otherwise.
ParseDecimal(t) ==
    LET u == Unsigned(t)
        p == IndexOf(u, ".")
        ip == IF p = -1 THEN u ELSE SubSeq(u, 1, p)
        fp == IF p = -1 THEN <<>> ELSE SubSeq(u, p + 2, Len(u))
    IN  IF AllDigits(ip) /\ AllDigits(fp) /\ Len(ip) + Len(fp) > 0
        THEN [ok |-> TRUE,
              neg |-> HasSign(t) /\ Head(t) = "-",
              n |-> DigitsValue(ip) * Pow10(Len(fp)) + DigitsValue(fp),
              d |-> Pow10(Len(fp))]
        ELSE NoDecimal

\* The integer a double converts to (C++ truncation towards zero).
DecimalToInt(q) == IF q.neg THEN 0 - (q.n \div q.d) ELSE q.n \div q.d

(***************************************************************************)
(* float                                                                   *)
(***************************************************************************)
F32Zero == [neg |-> FALSE, m |-> 0, e |-> 0]

\* The least k >= 0 with n * 2^k >= d * 2^23 (n >= 1, n / d < 2^24).
RECURSIVE ShiftFor(_, _, _)
ShiftFor(n, d, k) ==
    IF n >= d * 8388608 THEN k ELSE ShiftFor(2 * n, d, k + 1)

\* The float nearest to (-1)^neg * n / d, ties to even.
ToF32(neg, n, d) ==
    IF n = 0 THEN F32Zero
    ELSE LET k == ShiftFor(n, d, 0)
             s == n * Pow2(k)
             q == s \div d
             r == s % d
             up == (2 * r > d) \/ (2 * r = d /\ q % 2 = 1)
             m == IF up THEN q + 1 ELSE q
         IN  IF m = 16777216
             THEN [neg |-> neg, m |-> 8388608, e |-> 1 - k]
             ELSE [neg |-> neg, m |-> m, e |-> 0 - k]

DecimalToF32(q) == ToF32(q.neg, q.n, q.d)

F32MinusOne == ToF32(TRUE, 1, 1)

F32One == ToF32(FALSE, 1, 1)

\* x <= 0 and x > 0 on floats.
F32LeZero(x) == x.m = 0 \/ x.neg

F32GtZero(x) == x.m > 0 /\ ~x.neg

\* x < 0
F32LtZero(x) == x.m > 0 /\ x.neg

\* x < y on floats
F32Less(x, y) ==
    IF x.m = 0 THEN F32GtZero(y)
    ELSE IF y.m = 0 THEN x.neg
    ELSE IF x.neg # y.neg THEN x.neg
    ELSE LET lt == x.e < y.e \/ (x.e = y.e /\ x.m < y.m)
             gt == x.e > y.e \/ (x.e = y.e /\ x.m > y.m)
         IN  IF x.neg THEN gt ELSE lt

\* x <= y on floats
F32Leq(x, y) == x = y \/ F32Less(x, y)

\* x < k/5 for a float x promoted to double and the double literal nearest to
\* k/5 (k in 1..5).  No float lies between k/5 and that double, so the
\* comparison is the comparison with k/5 itself.
F32LessFifths(x, k) ==
    IF x.m = 0 \/ x.neg THEN TRUE
    ELSE IF x.e >= -23 THEN FALSE
    ELSE IF x.e < -26 THEN TRUE
    ELSE 5 * x.m * Pow2(x.e + 26) < k * 67108864

\* The int a float converts to (truncation towards zero).
F32ToInt(x) ==
    LET a == IF x.e >= 0 THEN x.m * Pow2(x.e)
             ELSE IF x.e < -24 THEN 0
             ELSE x.m \div Pow2(0 - x.e)
    IN  IF x.neg THEN 0 - a ELSE a

\* x * 100 in float arithmetic (the product rounded to 24 bits, ties to even).
F32Times100(x) ==
    IF x.m = 0 THEN x
    ELSE LET p == x.m * 100
             s == IF p >= 1073741824 THEN 7 ELSE 6
             q == p \div Pow2(s)
             r == p % Pow2(s)
             h == Pow2(s - 1)
             up == r > h \/ (r = h /\ q % 2 = 1)
             m == IF up THEN q + 1 ELSE q
         IN  IF m = 16777216
             THEN [neg |-> x.neg, m |-> 8388608, e |-> x.e + s + 1]
             ELSE [neg |-> x.neg, m |-> m, e |-> x.e + s]

\* QString::toFloat(): the float the whole text denotes, 0 when the text is
\* not a number.
QStringToFloat(t) ==
    LET q == ParseDecimal(Trimmed(t))
    IN  IF q.ok THEN DecimalToF32(q) ELSE F32Zero

(***************************************************************************)
(* QString::number(double) applied to a float: printf's %g with six        *)
(* significant digits.  The model's floats lie in [1e-4, 1e6) or are 0,    *)
(* where %g prints fixed notation and strips trailing zeros.               *)
(***************************************************************************)
\* The digits after the point: st = [v, rem, n, left, started], where v is the
\* number read so far, rem / 2^k the part of the value not yet printed, n the
\* number of fractional digits produced and left the significant digits still
\* to produce.
RECURSIVE FracDigits(_, _)
FracDigits(st, k) ==
    IF st.left = 0 \/ (st.rem = 0 /\ st.started) THEN st
    ELSE LET t == st.rem * 10
             dg == t \div Pow2(k)
             started == st.started \/ dg # 0
         IN  FracDigits([v |-> st.v * 10 + dg,
                         rem |-> t % Pow2(k),
                         n |-> st.n + 1,
                         left |-> IF started THEN st.left - 1 ELSE st.left,
                         started |-> started], k)

RECURSIVE StripZeros(_)
StripZeros(t) ==
    IF t # <<>> /\ t[Len(t)] = "0" THEN StripZeros(SubSeq(t, 1, Len(t) - 1)) ELSE t

RECURSIVE ZeroPad(_, _)
ZeroPad(t, n) == IF Len(t) >= n THEN t ELSE ZeroPad(<<"0">> \o t, n)

\* v / 10^n printed in fixed notation without trailing zeros.
FixedText(v, n) ==
    LET ds == ZeroPad(NatDigits(v), n + 1)
        ip == SubSeq(ds, 1, Len(ds) - n)
        fp == StripZeros(SubSeq(ds, Len(ds) - n + 1, Len(ds)))
    IN  IF fp = <<>> THEN ip ELSE ip \o <<".">> \o fp

NumberF32(x) ==
    IF x.m = 0 THEN <<"0">>
    ELSE LET k == IF x.e < 0 THEN 0 - x.e ELSE 0
             whole == IF x.e < 0 THEN x.m \div Pow2(k) ELSE x.m * Pow2(x.e)
             rem0 == IF x.e < 0 THEN x.m % Pow2(k) ELSE 0
             wd == IF whole = 0 THEN 0 ELSE Len(NatDigits(whole))
             st == FracDigits([v |-> whole, rem |-> rem0, n |-> 0,
                               left |-> 6 - wd, started |-> whole # 0], k)
             up == 2 * st.rem > Pow2(k) \/ (2 * st.rem = Pow2(k) /\ st.v % 2 = 1)
             v == IF up THEN st.v + 1 ELSE st.v
             body == FixedText(v, st.n)
         IN  IF x.neg THEN <<"-">> \o body ELSE body

(***************************************************************************)
(* The rating codec                                                        *)
(***************************************************************************)
\* The decoding without the 0xFC boundary: five stars only for 0xFF.
ConvertPOPMRating_Mut(POPM_rating) ==
    IF POPM_rating < 1 THEN F32Zero
    ELSE IF POPM_rating < 64 THEN ToF32(FALSE, 20, 100)
    ELSE IF POPM_rating < 128 THEN ToF32(FALSE, 40, 100)
    ELSE IF POPM_rating < 192 THEN ToF32(FALSE, 60, 100)
    ELSE IF POPM_rating < 255 THEN ToF32(FALSE, 80, 100)
    ELSE F32One

\* float TagReader::ConvertPOPMRating(const int POPM_rating)
ConvertPOPMRating(POPM_rating) ==
    IF POPM_rating < 1 THEN F32Zero
    ELSE IF POPM_rating < 64 THEN ToF32(FALSE, 20, 100)
    ELSE IF POPM_rating < 128 THEN ToF32(FALSE, 40, 100)
    ELSE IF POPM_rating < 192 THEN ToF32(FALSE, 60, 100)
    ELSE IF POPM_rating < 252 THEN ToF32(FALSE, 80, 100)
    ELSE F32One

\* The same thresholds compared with <= instead of <.
ConvertToPOPMRating_Mut(rating) ==
    IF F32LessFifths(rating, 1) \/ rating = ToF32(FALSE, 20, 100) THEN 0
    ELSE IF F32LessFifths(rating, 2) \/ rating = ToF32(FALSE, 40, 100) THEN 1
    ELSE IF F32LessFifths(rating, 3) \/ rating = ToF32(FALSE, 60, 100) THEN 64
    ELSE IF F32LessFifths(rating, 4) \/ rating = ToF32(FALSE, 80, 100) THEN 128
    ELSE IF F32LessFifths(rating, 5) THEN 192
    ELSE 255

\* int TagReader::ConvertToPOPMRating(const float rating)
ConvertToPOPMRating(rating) ==
    IF F32LessFifths(rating, 1) THEN 0
    ELSE IF F32LessFifths(rating, 2) THEN 1
    ELSE IF F32LessFifths(rating, 3) THEN 64
    ELSE IF F32LessFifths(rating, 4) THEN 128
    ELSE IF F32LessFifths(rating, 5) THEN 192
    ELSE 255

(***************************************************************************)
(* The canonical record (cpb::tagreader::SongMetadata)                     *)
(***************************************************************************)
Empty == <<>>

kEmbeddedCover == <<"(", "e", "m", "b", "e", "d", "d", "e", "d", ")">>

\* A record as constructed: texts empty, sentinels -1, statistics 0.
NewSong ==
    [valid |-> FALSE,
     basefilename |-> Empty, url |-> Empty,
     filesize |-> 0, mtime |-> 0, ctime |-> 0,
     type |-> "UNKNOWN",
     title |-> Empty, artist |-> Empty, album |-> Empty, genre |-> Empty,
     comment |-> Empty, albumartist |-> Empty, composer |-> Empty,
     performer |-> Empty, grouping |-> Empty, lyrics |-> Empty,
     year |-> -1, track |-> -1, disc |-> -1, bpm |-> F32MinusOne,
     bitrate |-> -1, samplerate |-> -1, lastplayed |-> -1,
     originalyear |-> -1,
     rating |-> F32MinusOne, playcount |-> 0, score |-> 0,
     compilation |-> FALSE, art_automatic |-> Empty,
     length_nanosec |-> 0]

(***************************************************************************)
(* The container (TagLib::FileRef).  kind is the dynamic class of          *)
(* fileref->file(), "NONE" when fileref->isNull().  kv is the keyed store  *)
(* of the family (ID3v2 text frames by frame id, Xiph fields, APE items,   *)
(* MP4 items, ASF attributes): a function from the keys present to their   *)
(* value lists.  txxx, popm and comm are the TXXX, POPM and COMM frame     *)
(* lists of an ID3v2 tag, pics the picture list.  TagLib gives an opened   *)
(* MPEG file its ID3v2 tag, a FLAC file its Xiph comment and an APE, MPC   *)
(* or WavPack file its APE tag, so these are never null; the other tag     *)
(* types such files may carry (ID3v1) are not modelled.  fs is what        *)
(* QFileInfo reports for the path: the size, the modification time and the *)
(* birth time (-1 when unsupported).                                       *)
(* gme marks a file TagLib cannot open and the GME reader can.             *)
(***************************************************************************)
XiphKinds == {"OGGFLAC", "OGGSPEEX", "OGGVORBIS", "OGGOPUS"}

ApeKinds == {"APE", "MPC", "WAVPACK"}

PlainKinds == {"AIFF", "WAV", "TRUEAUDIO", "MOD"}

Kinds == {"ASF", "FLAC", "MP4", "MPEG"} \cup XiphKinds \cup ApeKinds \cup PlainKinds

NoAudio == [present |-> FALSE, bitrate |-> 0, samplerate |-> 0, length |-> 0]

EmptyStore == [k \in {} |-> <<>>]

NoFile ==
    [kind |-> "NONE", gme |-> FALSE,
     title |-> Empty, artist |-> Empty, album |-> Empty, genre |-> Empty,
     comment |-> Empty, year |-> 0, track |-> 0,
     kv |-> EmptyStore, txxx |-> <<>>, popm |-> <<>>, comm |-> <<>>,
     pics |-> <<>>, audio |-> NoAudio,
     fs |-> [size |-> 0, mtime |-> 0, btime |-> -1]]

\* A file of the given kind with an empty tag.
EmptyFile(kind) == [NoFile EXCEPT !.kind = kind]

\* map[key] of a TagLib map: the value list, empty when the key is absent.
Get(kv, key) == IF key \in DOMAIN kv THEN kv[key] ELSE <<>>

Contains(kv, key) == key \in DOMAIN kv

\* The map with key bound to vals.
Put(kv, key, vals) ==
    [k \in DOMAIN kv \cup {key} |-> IF k = key THEN vals ELSE kv[k]]

\* The map without key.
Remove(kv, key) == [k \in DOMAIN kv \ {key} |-> kv[k]]

\* TagLib::StringList::toString(separator)
RECURSIVE Join(_, _)
Join(vals, sep) ==
    IF vals = <<>> THEN <<>>
    ELSE IF Len(vals) = 1 THEN vals[1]
    ELSE vals[1] \o sep \o Join(Tail(vals), sep)

\* TagLib::APE::Item::toString(): the first value of the item.
ItemToString(vals) == IF vals = <<>> THEN <<>> ELSE vals[1]

\* TagReader::Decode(const TagLib::String&, nullptr, output)
Decode(t) == Trimmed(t)

(***************************************************************************)
(* FMPSParser: a value is rows separated by ";;", each row scalars         *)
(* separated by "::"; a scalar is a number ([+-]digits[.digits], spaces    *)
(* around it allowed) or a non-empty text without ":" and ";".             *)
(***************************************************************************)
\* The position of the first occurrence of the separator c c in t, 0 if none.
FindSep(t, c) ==
    IF \E i \in 1..(Len(t) - 1) : t[i] = c /\ t[i + 1] = c
    THEN CHOOSE i \in 1..(Len(t) - 1) :
            /\ t[i] = c /\ t[i + 1] = c
            /\ \A j \in 1..(i - 1) : ~(t[j] = c /\ t[j + 1] = c)
    ELSE 0

RECURSIVE SplitOn(_, _)
SplitOn(t, c) ==
    LET p == FindSep(t, c)
    IN  IF p = 0 THEN <<t>>
        ELSE <<SubSeq(t, 1, p - 1)>> \o SplitOn(SubSeq(t, p + 2, Len(t)), c)

\* float_re_: [+-]?\d+(\.\d+)? with optional surrounding whitespace.
IsFMPSFloat(t) ==
    LET u == Unsigned(Trimmed(t))
        p == IndexOf(u, ".")
    IN  /\ u # <<>>
        /\ IF p = -1 THEN AllDigits(u)
           ELSE /\ p >= 1 /\ p + 1 < Len(u)
                /\ AllDigits(SubSeq(u, 1, p))
                /\ AllDigits(SubSeq(u, p + 2, Len(u)))

IsFMPSString(t) == t # <<>> /\ \A i \in 1..Len(t) : t[i] \notin {":", ";"}

FMPSScalar(t) ==
    IF IsFMPSFloat(t)
    THEN [type |-> "Double", num |-> ParseDecimal(Trimmed(t)), str |-> <<>>]
    ELSE [type |-> "String", num |-> NoDecimal, str |-> t]

FMPSRow(t) == LET parts == SplitOn(t, ":") IN [i \in 1..Len(parts) |-> FMPSScalar(parts[i])]

\* FMPSParser::Parse and result(): ok is Parse's return value.
FMPSParse(value) ==
    LET rows == SplitOn(value, ";")
        good == \A i \in 1..Len(rows) :
                   \A j \in 1..Len(SplitOn(rows[i], ":")) :
                      LET sc == SplitOn(rows[i], ":")[j]
                      IN  IsFMPSFloat(sc) \/ IsFMPSString(sc)
    IN  IF value # <<>> /\ good
        THEN [ok |-> TRUE, result |-> [i \in 1..Len(rows) |-> FMPSRow(rows[i])]]
        ELSE [ok |-> FALSE, result |-> <<>>]

(***************************************************************************)
(* ReadFile                                                                *)
(***************************************************************************)
kMP4_FMPS_Rating_ID == "----:com.apple.iTunes:FMPS_Rating"

kMP4_FMPS_Playcount_ID == "----:com.apple.iTunes:FMPS_Playcount"

kMP4_FMPS_Score_ID == "----:com.apple.iTunes:FMPS_Rating_Amarok_Score"

kMP4_OriginalYear_ID == "----:com.apple.iTunes:ORIGINAL YEAR"

kASF_OriginalDate_ID == "WM/OriginalReleaseTime"

kASF_OriginalYear_ID == "WM/OriginalReleaseYear"

\* TagLib::String::startsWith("FMPS_") on the frame descriptions of the model.
StartsWithFMPS(description) ==
    description \in {"FMPS_Rating", "FMPS_Rating_User", "FMPS_PlayCount",
                     "FMPS_PlayCount_User", "FMPS_Rating_Amarok_Score",
                     "FMPS_Performers"}

\* ParseFMPSFrame after parser.Parse(value) has succeeded with a non-empty
\* result: row is parser.result()[0].
\* The plain frames guarded like the user variants: the first value wins.
ParseFMPSRow_Mut(name, row, song) ==
    IF name \in {"FMPS_Rating", "FMPS_Rating_User"} THEN
        LET k == IF name = "FMPS_Rating" THEN 1 ELSE 2
        IN  IF song.rating = F32MinusOne /\ Len(row) >= k /\ row[k].type = "Double"
            THEN [song EXCEPT !.rating = DecimalToF32(row[k].num)]
            ELSE song
    ELSE IF name \in {"FMPS_PlayCount", "FMPS_PlayCount_User"} THEN
        LET k == IF name = "FMPS_PlayCount" THEN 1 ELSE 2
        IN  IF song.playcount = 0 /\ Len(row) >= k /\ row[k].type = "Double"
            THEN [song EXCEPT !.playcount = DecimalToInt(row[k].num)]
            ELSE song
    ELSE IF name = "FMPS_Rating_Amarok_Score" THEN
        IF row[1].type = "Double"
        THEN [song EXCEPT !.score = F32ToInt(F32Times100(DecimalToF32(row[1].num)))]
        ELSE song
    ELSE song

ParseFMPSRow(name, row, song) ==
    IF name = "FMPS_Rating" THEN
        IF row[1].type = "Double"
        THEN [song EXCEPT !.rating = DecimalToF32(row[1].num)]
        ELSE song
    ELSE IF name = "FMPS_Rating_User" THEN
        IF song.rating = F32MinusOne /\ Len(row) >= 2 /\ row[2].type = "Double"
        THEN [song EXCEPT !.rating = DecimalToF32(row[2].num)]
        ELSE song
    ELSE IF name = "FMPS_PlayCount" THEN
        IF row[1].type = "Double"
        THEN [song EXCEPT !.playcount = DecimalToInt(row[1].num)]
        ELSE song
    ELSE IF name = "FMPS_PlayCount_User" THEN
        IF song.playcount = 0 /\ Len(row) >= 2 /\ row[2].type = "Double"
        THEN [song EXCEPT !.playcount = DecimalToInt(row[2].num)]
        ELSE song
    ELSE IF name = "FMPS_Rating_Amarok_Score" THEN
        IF row[1].type = "Double"
        THEN [song EXCEPT !.score = F32ToInt(F32Times100(DecimalToF32(row[1].num)))]
        ELSE song
    ELSE song

\* ParseFMPSFrame clearing the rating and play count on a failed parse.
ParseFMPSResult_Mut(name, parser, song) ==
    IF ~parser.ok \/ parser.result = <<>>
    THEN [song EXCEPT !.rating = F32MinusOne, !.playcount = 0]
    ELSE ParseFMPSRow(name, parser.result[1], song)

\* ParseFMPSFrame given what the parser returned.
ParseFMPSResult(name, parser, song) ==
    IF ~parser.ok \/ parser.result = <<>> THEN song
    ELSE ParseFMPSRow(name, parser.result[1], song)

\* void TagReader::ParseFMPSFrame(name, value, song)
ParseFMPSFrame(name, value, song) == ParseFMPSResult(name, FMPSParse(value), song)

\* The loop over map["TXXX"] of ReadFile.
RECURSIVE ParseFMPSFrames(_, _)
ParseFMPSFrames(frames, song) ==
    IF frames = <<>> THEN song
    ELSE ParseFMPSFrames(Tail(frames),
            IF StartsWithFMPS(Head(frames).description)
            THEN ParseFMPSFrame(Head(frames).description, Head(frames).text, song)
            ELSE song)

\* The POPM rating taken whatever rating the record already has.
ReadPOPM_Mut(popm, song) ==
    IF popm = <<>> THEN song
    ELSE LET frame == popm[1]
             s1 == IF frame.rating > 0
                   THEN [song EXCEPT !.rating = ConvertPOPMRating(frame.rating)]
                   ELSE song
         IN  IF s1.playcount <= 0 /\ frame.counter > 0
             THEN [s1 EXCEPT !.playcount = frame.counter]
             ELSE s1

\* The POPM counter taken whatever play count the record already has.
ReadPOPMCounter_Mut(popm, song) ==
    IF popm = <<>> THEN song
    ELSE LET frame == popm[1]
             s1 == IF F32LeZero(song.rating) /\ frame.rating > 0
                   THEN [song EXCEPT !.rating = ConvertPOPMRating(frame.rating)]
                   ELSE song
         IN  IF frame.counter > 0
             THEN [s1 EXCEPT !.playcount = frame.counter]
             ELSE s1

\* "Check POPM tags" of ReadFile
ReadPOPM(popm, song) ==
    IF popm = <<>> THEN song
    ELSE LET frame == popm[1]
             s1 == IF F32LeZero(song.rating) /\ frame.rating > 0
                   THEN [song EXCEPT !.rating = ConvertPOPMRating(frame.rating)]
                   ELSE song
         IN  IF s1.playcount <= 0 /\ frame.counter > 0
             THEN [s1 EXCEPT !.playcount = frame.counter]
             ELSE s1

\* The first COMM frame whose description is not iTunNORM.
RECURSIVE ReadComment(_, _)
ReadComment(comm, song) ==
    IF comm = <<>> THEN song
    ELSE IF Head(comm).description # "iTunNORM"
    THEN [song EXCEPT !.comment = Decode(Head(comm).text)]
    ELSE ReadComment(Tail(comm), song)

Front(vals) == vals[1]

\* The text frames, lyrics and picture of the ID3v2 branch of ReadFile.  Each
\* field is assigned at most once, so @ is the value the record had before.
ReadID3v2Frames(f, map, song) ==
    [song EXCEPT
        !.bpm = IF Get(map, "TBPM") # <<>>
                THEN QStringToFloat(Trimmed(Front(map["TBPM"]))) ELSE @,
        !.composer = IF Get(map, "TCOM") # <<>> THEN Decode(Front(map["TCOM"])) ELSE @,
        !.grouping = IF Get(map, "TIT1") # <<>> THEN Decode(Front(map["TIT1"])) ELSE @,
        !.performer = IF Get(map, "TOPE") # <<>> THEN Decode(Front(map["TOPE"])) ELSE @,
        !.albumartist = IF Get(map, "TPE2") # <<>> THEN Decode(Front(map["TPE2"])) ELSE @,
        !.originalyear = IF Get(map, "TDOR") # <<>>
                         THEN TStringToInt(Left(Front(map["TDOR"]), 4))
                         ELSE IF Get(map, "TORY") # <<>>
                         THEN TStringToInt(Left(Front(map["TORY"]), 4))
                         ELSE @,
        !.lyrics = IF Get(map, "USLT") # <<>> THEN Decode(Front(map["USLT"]))
                   ELSE IF Get(map, "SYLT") # <<>> THEN Decode(Front(map["SYLT"]))
                   ELSE @,
        !.art_automatic = IF f.pics # <<>> THEN kEmbeddedCover ELSE @]

\* The ID3v2 branch of ReadFile; c = [song, disc, compilation].
ReadID3v2(f, c) ==
    [song |-> ReadPOPM(f.popm,
                ParseFMPSFrames(f.txxx,
                    ReadComment(f.comm, ReadID3v2Frames(f, f.kv, c.song)))),
     disc |-> IF Get(f.kv, "TPOS") # <<>> THEN Trimmed(Front(f.kv["TPOS"])) ELSE c.disc,
     compilation |-> IF Get(f.kv, "TCMP") # <<>>
                     THEN Trimmed(Front(f.kv["TCMP"])) ELSE c.compilation]

\* The fields ParseOggTag sets in the record.  Each field is assigned at most
\* once (art_automatic twice, to the same value), so @ is the value the
\* record had before.
ParseOggSong(map, song) ==
    [song EXCEPT
        !.composer = IF Get(map, "COMPOSER") # <<>>
                     THEN Decode(Front(map["COMPOSER"])) ELSE @,
        !.performer = IF Get(map, "PERFORMER") # <<>>
                      THEN Decode(Front(map["PERFORMER"])) ELSE @,
        !.grouping = IF Get(map, "CONTENT GROUP") # <<>>
                     THEN Decode(Front(map["CONTENT GROUP"])) ELSE @,
        !.albumartist = IF Get(map, "ALBUMARTIST") # <<>>
                        THEN Decode(Front(map["ALBUMARTIST"]))
                        ELSE IF Get(map, "ALBUM ARTIST") # <<>>
                        THEN Decode(Front(map["ALBUM ARTIST"]))
                        ELSE @,
        !.originalyear = IF Get(map, "ORIGINALDATE") # <<>>
                         THEN QStringToInt(Left(Front(map["ORIGINALDATE"]), 4))
                         ELSE IF Get(map, "ORIGINALYEAR") # <<>>
                         THEN QStringToInt(Front(map["ORIGINALYEAR"]))
                         ELSE @,
        !.bpm = IF Get(map, "BPM") # <<>>
                THEN QStringToFloat(Trimmed(Front(map["BPM"]))) ELSE @,
        !.art_automatic = IF Get(map, "COVERART") # <<>>
                             \/ Get(map, "METADATA_BLOCK_PICTURE") # <<>>
                          THEN kEmbeddedCover ELSE @,
        !.rating = IF Get(map, "FMPS_RATING") # <<>> /\ F32LeZero(@)
                   THEN QStringToFloat(Trimmed(Front(map["FMPS_RATING"]))) ELSE @,
        !.playcount = IF Get(map, "FMPS_PLAYCOUNT") # <<>> /\ @ <= 0
                      THEN F32ToInt(QStringToFloat(Trimmed(Front(map["FMPS_PLAYCOUNT"]))))
                      ELSE @,
        !.score = IF Get(map, "FMPS_RATING_AMAROK_SCORE") # <<>> /\ @ <= 0
                  THEN F32ToInt(F32Times100(QStringToFloat(
                           Trimmed(Front(map["FMPS_RATING_AMAROK_SCORE"])))))
                  ELSE @,
        !.lyrics = IF Get(map, "LYRICS") # <<>> THEN Decode(Front(map["LYRICS"]))
                   ELSE IF Get(map, "UNSYNCEDLYRICS") # <<>>
                   THEN Decode(Front(map["UNSYNCEDLYRICS"]))
                   ELSE @]

\* void TagReader::ParseOggTag(map, codec, disc, compilation, song)
ParseOggTag(map, c) ==
    [song |-> ParseOggSong(map, c.song),
     disc |-> IF Get(map, "DISCNUMBER") # <<>>
              THEN Trimmed(Front(map["DISCNUMBER"])) ELSE c.disc,
     compilation |-> IF Get(map, "COMPILATION") # <<>>
                     THEN Trimmed(Front(map["COMPILATION"])) ELSE c.compilation]

\* The fields parseApeTag sets before it reaches the PERFORMER item; the BPM
\* item is decoded into the performer field.
parseApeItems(f, items, song) ==
    [song EXCEPT
        !.albumartist = IF Contains(items, "ALBUM ARTIST") /\ items["ALBUM ARTIST"] # <<>>
                        THEN Decode(Front(items["ALBUM ARTIST"])) ELSE @,
        !.art_automatic = IF Contains(items, "COVER ART (FRONT)")
                          THEN kEmbeddedCover ELSE @,
        !.rating = IF Contains(items, "FMPS_RATING") /\ F32LeZero(@)
                      /\ F32GtZero(QStringToFloat(ItemToString(items["FMPS_RATING"])))
                   THEN QStringToFloat(ItemToString(items["FMPS_RATING"])) ELSE @,
        !.playcount = IF Contains(items, "FMPS_PLAYCOUNT") /\ @ <= 0
                         /\ F32ToInt(QStringToFloat(
                                ItemToString(items["FMPS_PLAYCOUNT"]))) > 0
                      THEN F32ToInt(QStringToFloat(ItemToString(items["FMPS_PLAYCOUNT"])))
                      ELSE @,
        !.score = IF Contains(items, "FMPS_RATING_AMAROK_SCORE") /\ @ <= 0
                     /\ F32ToInt(F32Times100(QStringToFloat(
                            ItemToString(items["FMPS_RATING_AMAROK_SCORE"])))) > 0
                  THEN F32ToInt(F32Times100(QStringToFloat(
                           ItemToString(items["FMPS_RATING_AMAROK_SCORE"]))))
                  ELSE @,
        !.performer = IF Contains(items, "BPM")
                      THEN Decode(Join(items["BPM"], <<",", " ">>)) ELSE @]

\* The fields parseApeTag sets from the PERFORMER item on.
parseApeRest(f, items, song) ==
    [song EXCEPT
        !.performer = IF Contains(items, "PERFORMER")
                      THEN Decode(Join(items["PERFORMER"], <<",", " ">>)) ELSE @,
        !.composer = IF Contains(items, "COMPOSER")
                     THEN Decode(Join(items["COMPOSER"], <<",", " ">>)) ELSE @,
        !.grouping = IF Contains(items, "GROUPING")
                     THEN Decode(Join(items["GROUPING"], <<" ">>)) ELSE @,
        !.lyrics = IF Contains(items, "LYRICS")
                   THEN Decode(ItemToString(items["LYRICS"])) ELSE @,
        !.comment = Decode(f.comment)]

\* The lambda parseApeTag of ReadFile
parseApeTag(f, c) ==
    [song |-> parseApeRest(f, f.kv, parseApeItems(f, f.kv, c.song)),
     disc |-> IF Contains(f.kv, "DISC")
              THEN NumberInt(TStringToInt(ItemToString(f.kv["DISC"]))) ELSE c.disc,
     compilation |-> IF Contains(f.kv, "COMPILATION")
                     THEN NumberInt(TStringToInt(ItemToString(f.kv["COMPILATION"])))
                     ELSE c.compilation]

\* item.toStringList().toString('\n') of the MP4 item with the given key.
MP4Text(items, key) == Join(Get(items, key), <<"\n">>)

\* The fields the MP4 branch of ReadFile sets in the record.  The item "disk"
\* holds an int pair, the other items string lists; "(c)wrt", "(c)grp",
\* "(c)lyr" stand for the atoms whose first byte is 0xA9.
ReadMP4Items(f, items, song) ==
    [song EXCEPT
        !.albumartist = IF Contains(items, "aART") /\ items["aART"] # <<>>
                        THEN Decode(Front(items["aART"])) ELSE @,
        !.art_automatic = IF Contains(items, "covr") THEN kEmbeddedCover ELSE @,
        !.rating = IF Contains(items, kMP4_FMPS_Rating_ID) /\ F32LeZero(@)
                      /\ F32GtZero(QStringToFloat(MP4Text(items, kMP4_FMPS_Rating_ID)))
                   THEN QStringToFloat(MP4Text(items, kMP4_FMPS_Rating_ID)) ELSE @,
        !.playcount = IF Contains(items, kMP4_FMPS_Playcount_ID) /\ @ <= 0
                         /\ F32ToInt(QStringToFloat(
                                MP4Text(items, kMP4_FMPS_Playcount_ID))) > 0
                      THEN F32ToInt(QStringToFloat(MP4Text(items, kMP4_FMPS_Playcount_ID)))
                      ELSE @,
        !.score = IF Contains(items, kMP4_FMPS_Score_ID) /\ @ <= 0
                     /\ F32ToInt(F32Times100(QStringToFloat(
                            MP4Text(items, kMP4_FMPS_Score_ID)))) > 0
                  THEN F32ToInt(F32Times100(QStringToFloat(
                           MP4Text(items, kMP4_FMPS_Score_ID))))
                  ELSE @,
        !.composer = IF Contains(items, "(c)wrt")
                     THEN Decode(Join(items["(c)wrt"], <<",", " ">>)) ELSE @,
        !.grouping = IF Contains(items, "(c)grp")
                     THEN Decode(Join(items["(c)grp"], <<" ">>)) ELSE @,
        !.lyrics = IF Contains(items, "(c)lyr")
                   THEN Decode(Join(items["(c)lyr"], <<" ">>)) ELSE @,
        !.originalyear = IF Contains(items, kMP4_OriginalYear_ID)
                         THEN QStringToInt(Left(MP4Text(items, kMP4_OriginalYear_ID), 4))
                         ELSE @,
        !.comment = Decode(f.comment)]

\* The MP4 branch of ReadFile.
ReadMP4(f, c) ==
    [song |-> ReadMP4Items(f, f.kv, c.song),
     disc |-> IF Contains(f.kv, "disk") THEN NumberInt(f.kv["disk"][1]) ELSE c.disc,
     compilation |-> c.compilation]

\* Whether the attribute list of the given name is present and not empty.
HasAttribute(attributes_map, name) ==
    Contains(attributes_map, name) /\ attributes_map[name] # <<>>

\* The ASF attributes read with the year-only attribute tested first.
ReadASFAttributes_Mut(attributes_map, song) ==
    [song EXCEPT
        !.rating = IF HasAttribute(attributes_map, "FMPS/Rating") /\ F32LeZero(@)
                      /\ F32GtZero(QStringToFloat(Front(attributes_map["FMPS/Rating"])))
                   THEN QStringToFloat(Front(attributes_map["FMPS/Rating"])) ELSE @,
        !.playcount = IF HasAttribute(attributes_map, "FMPS/Playcount") /\ @ <= 0
                         /\ QStringToInt(Front(attributes_map["FMPS/Playcount"])) > 0
                      THEN QStringToInt(Front(attributes_map["FMPS/Playcount"])) ELSE @,
        !.score = IF HasAttribute(attributes_map, "FMPS/Rating_Amarok_Score") /\ @ <= 0
                     /\ F32ToInt(F32Times100(QStringToFloat(
                            Front(attributes_map["FMPS/Rating_Amarok_Score"])))) > 0
                  THEN F32ToInt(F32Times100(QStringToFloat(
                           Front(attributes_map["FMPS/Rating_Amarok_Score"]))))
                  ELSE @,
        !.originalyear =
            IF HasAttribute(attributes_map, kASF_OriginalYear_ID)
            THEN QStringToInt(Left(Front(attributes_map[kASF_OriginalYear_ID]), 4))
            ELSE IF HasAttribute(attributes_map, kASF_OriginalDate_ID)
            THEN QStringToInt(Left(Front(attributes_map[kASF_OriginalDate_ID]), 4))
            ELSE @]

\* The fields the ASF branch of ReadFile sets in the record.
ReadASFAttributes(attributes_map, song) ==
    [song EXCEPT
        !.rating = IF HasAttribute(attributes_map, "FMPS/Rating") /\ F32LeZero(@)
                      /\ F32GtZero(QStringToFloat(Front(attributes_map["FMPS/Rating"])))
                   THEN QStringToFloat(Front(attributes_map["FMPS/Rating"])) ELSE @,
        !.playcount = IF HasAttribute(attributes_map, "FMPS/Playcount") /\ @ <= 0
                         /\ QStringToInt(Front(attributes_map["FMPS/Playcount"])) > 0
                      THEN QStringToInt(Front(attributes_map["FMPS/Playcount"])) ELSE @,
        !.score = IF HasAttribute(attributes_map, "FMPS/Rating_Amarok_Score") /\ @ <= 0
                     /\ F32ToInt(F32Times100(QStringToFloat(
                            Front(attributes_map["FMPS/Rating_Amarok_Score"])))) > 0
                  THEN F32ToInt(F32Times100(QStringToFloat(
                           Front(attributes_map["FMPS/Rating_Amarok_Score"]))))
                  ELSE @,
        !.originalyear =
            IF Contains(attributes_map, kASF_OriginalDate_ID)
            THEN IF attributes_map[kASF_OriginalDate_ID] # <<>>
                 THEN QStringToInt(Left(Front(attributes_map[kASF_OriginalDate_ID]), 4))
                 ELSE @
            ELSE IF HasAttribute(attributes_map, kASF_OriginalYear_ID)
            THEN QStringToInt(Left(Front(attributes_map[kASF_OriginalYear_ID]), 4))
            ELSE @]

\* The ASF branch of ReadFile
ReadASF(f, c) == [c EXCEPT !.song = ReadASFAttributes(f.kv, @)]

\* The chain of tests with OGG-FLAC tested before FLAC.
GuessFileTypeOf_Mut(classes) ==
    IF "ASF" \in classes THEN "ASF"
    ELSE IF "OGGFLAC" \in classes THEN "OGGFLAC"
    ELSE IF "FLAC" \in classes THEN "FLAC"
    ELSE IF "MP4" \in classes THEN "MP4"
    ELSE IF "MPC" \in classes THEN "MPC"
    ELSE IF "MPEG" \in classes THEN "MPEG"
    ELSE IF "OGGSPEEX" \in classes THEN "OGGSPEEX"
    ELSE IF "OGGVORBIS" \in classes THEN "OGGVORBIS"
    ELSE IF "OGGOPUS" \in classes THEN "OGGOPUS"
    ELSE IF "AIFF" \in classes THEN "AIFF"
    ELSE IF "WAV" \in classes THEN "WAV"
    ELSE IF "TRUEAUDIO" \in classes THEN "TRUEAUDIO"
    ELSE IF "WAVPACK" \in classes THEN "WAVPACK"
    ELSE IF "APE" \in classes THEN "APE"
    ELSE "UNKNOWN"

\* The chain of dynamic_casts of GuessFileType, classes being the TagLib file
\* classes the file object can be cast to.
GuessFileTypeOf(classes) ==
    IF "ASF" \in classes THEN "ASF"
    ELSE IF "FLAC" \in classes THEN "FLAC"
    ELSE IF "MP4" \in classes THEN "MP4"
    ELSE IF "MPC" \in classes THEN "MPC"
    ELSE IF "MPEG" \in classes THEN "MPEG"
    ELSE IF "OGGFLAC" \in classes THEN "OGGFLAC"
    ELSE IF "OGGSPEEX" \in classes THEN "OGGSPEEX"
    ELSE IF "OGGVORBIS" \in classes THEN "OGGVORBIS"
    ELSE IF "OGGOPUS" \in classes THEN "OGGOPUS"
    ELSE IF "AIFF" \in classes THEN "AIFF"
    ELSE IF "WAV" \in classes THEN "WAV"
    ELSE IF "TRUEAUDIO" \in classes THEN "TRUEAUDIO"
    ELSE IF "WAVPACK" \in classes THEN "WAVPACK"
    ELSE IF "APE" \in classes THEN "APE"
    ELSE "UNKNOWN"

\* cpb::tagreader::SongMetadata_Type TagReader::GuessFileType(fileref): a file
\* TagLib opened is an object of the one class of its kind.
GuessFileType(f) == GuessFileTypeOf({f.kind})

\* The name under which the one file of the model is opened; a null QString
\* is NullName.
kPath == <<"s", ".", "x">>

NullName == <<>>

\* QUrl::fromLocalFile(filename).toEncoded()
UrlOf(filename) == <<"f", "i", "l", "e", ":", "/", "/">> \o filename

\* GME::ReadFile(info, song): the fallback for files TagLib cannot open.  It
\* fills the record only for a file the GME reader accepts.
GMEReadFile(f, song) ==
    IF f.gme
    THEN [song EXCEPT !.valid = TRUE, !.title = f.title, !.artist = f.artist,
                      !.album = f.album]
    ELSE song

\* The SetDefault block of ReadFile.
SetDefault(song) ==
    [song EXCEPT !.track = IF @ <= 0 THEN -1 ELSE @,
                 !.disc = IF @ <= 0 THEN -1 ELSE @,
                 !.bpm = IF F32LeZero(@) THEN F32MinusOne ELSE @,
                 !.year = IF @ <= 0 THEN -1 ELSE @,
                 !.bitrate = IF @ <= 0 THEN -1 ELSE @,
                 !.samplerate = IF @ <= 0 THEN -1 ELSE @,
                 !.lastplayed = IF @ <= 0 THEN -1 ELSE @]

\* The disc text converted whole, without the split at "/".
DiscOf_Mut(disc) == QStringToInt(disc)

\* The disc number in the text ReadFile collected: the part before a "/".
DiscOf(disc) ==
    IF IndexOf(disc, "/") # -1
    THEN QStringToInt(Left(disc, IndexOf(disc, "/")))
    ELSE QStringToInt(disc)

\* The final part of ReadFile: disc, compilation, audio properties, type and
\* the SetDefault block.
ReadTail(f, c) ==
    SetDefault(
        [c.song EXCEPT
            !.disc = IF c.disc # <<>> THEN DiscOf(c.disc) ELSE @,
            !.compilation =
                IF c.compilation = <<>>
                THEN IF ToLower(c.song.artist) = <<"v", "a", "r", "i", "o", "u", "s", " ",
                                                   "a", "r", "t", "i", "s", "t", "s">>
                     THEN TRUE ELSE @
                ELSE QStringToInt(c.compilation) = 1,
            !.bitrate = IF f.audio.present THEN f.audio.bitrate ELSE @,
            !.samplerate = IF f.audio.present THEN f.audio.samplerate ELSE @,
            !.length_nanosec = IF f.audio.present THEN f.audio.length * 1000000 ELSE @,
            !.type = GuessFileType(f)])

\* The creation time stored as the filesystem reports it.
ReadIdentity_Mut(filename, f, song) ==
    [song EXCEPT !.basefilename = filename,
                 !.url = UrlOf(filename),
                 !.filesize = f.fs.size,
                 !.mtime = f.fs.mtime,
                 !.ctime = f.fs.btime]

\* The identity fields ReadFile sets before it opens the file.
ReadIdentity(filename, f, song) ==
    [song EXCEPT !.basefilename = filename,
                 !.url = UrlOf(filename),
                 !.filesize = f.fs.size,
                 !.mtime = f.fs.mtime,
                 !.ctime = IF f.fs.btime = -1 THEN f.fs.mtime ELSE f.fs.btime]

\* The basic fields read through fileref->tag().
ReadBasic(f, song) ==
    [song EXCEPT !.title = Decode(f.title), !.artist = Decode(f.artist),
                 !.album = Decode(f.album), !.genre = Decode(f.genre),
                 !.year = f.year, !.track = f.track, !.valid = TRUE]

\* The picture list ignored.
WithPictures_Mut(f, c) == c

\* The record's art marked embedded when the tag has pictures.
WithPictures(f, c) ==
    IF f.pics # <<>> THEN [c EXCEPT !.song.art_automatic = kEmbeddedCover] ELSE c

\* The Xiph comment of an Ogg file, parsed before the family branches.
ReadXiph(f, c) ==
    IF f.kind \in XiphKinds THEN WithPictures(f, ParseOggTag(f.kv, c)) ELSE c

\* The FLAC branch of ReadFile.
ReadFLAC(f, c) ==
    [WithPictures(f, ParseOggTag(f.kv, c)) EXCEPT !.song.comment = Decode(f.comment)]

\* The chain of dynamic_casts of ReadFile that selects the family's branch.
ReadBranch(f, c) ==
    IF f.kind = "MPEG" THEN ReadID3v2(f, c)
    ELSE IF f.kind = "FLAC" THEN ReadFLAC(f, c)
    ELSE IF f.kind = "MP4" THEN ReadMP4(f, c)
    ELSE IF f.kind \in ApeKinds THEN parseApeTag(f, c)
    ELSE IF f.kind = "ASF" THEN ReadASF(f, c)
    ELSE [c EXCEPT !.song.comment = Decode(f.comment)]

\* ReadFile on a file TagLib has opened, song holding the identity fields.
ReadOpened(f, song) ==
    ReadTail(f, ReadBranch(f, ReadXiph(f,
        [song |-> ReadBasic(f, song), disc |-> <<>>, compilation |-> <<>>])))

\* void TagReader::ReadFile(filename, song): the record read from file f into
\* a newly constructed record.
ReadFile(filename, f) ==
    IF f.kind = "NONE"
    THEN GMEReadFile(f, ReadIdentity(filename, f, NewSong))
    ELSE ReadOpened(f, ReadIdentity(filename, f, NewSong))

(***************************************************************************)
(* LoadEmbeddedArt.  A picture is [type, data], data a sequence of bytes.  *)
(***************************************************************************)
Base64Alphabet ==
    <<"A", "B", "C", "D", "E", "F", "G", "H", "I", "J", "K", "L", "M", "N", "O", "P",
      "Q", "R", "S", "T", "U", "V", "W", "X", "Y", "Z", "a", "b", "c", "d", "e", "f",
      "g", "h", "i", "j", "k", "l", "m", "n", "o", "p", "q", "r", "s", "t", "u", "v",
      "w", "x", "y", "z", "0", "1", "2", "3", "4", "5", "6", "7", "8", "9", "+", "/">>

\* The six bits of a base64 character, -1 for any other character.
Base64Value(c) == IndexOf(Base64Alphabet, c)

\* QByteArray::fromBase64(t): characters outside the alphabet are skipped and
\* a byte is emitted whenever eight bits are buffered.
RECURSIVE FromBase64Loop(_, _, _, _)
FromBase64Loop(t, buf, nbits, out) ==
    IF t = <<>> THEN out
    ELSE IF Base64Value(t[1]) = -1 THEN FromBase64Loop(Tail(t), buf, nbits, out)
    ELSE IF nbits + 6 >= 8
    THEN FromBase64Loop(Tail(t), (buf * 64 + Base64Value(t[1])) % (2 ^ (nbits - 2)),
                        nbits - 2,
                        Append(out, (buf * 64 + Base64Value(t[1])) \div (2 ^ (nbits - 2))))
    ELSE FromBase64Loop(Tail(t), buf * 64 + Base64Value(t[1]), nbits + 6, out)

FromBase64(t) == FromBase64Loop(t, 0, 0, <<>>)

\* The first picture of type FrontCover, or the first picture if there is none.
FrontCoverOrFirst(pics) ==
    IF \E i \in 1..Len(pics) : pics[i].type = "FrontCover"
    THEN pics[CHOOSE i \in 1..Len(pics) :
                /\ pics[i].type = "FrontCover"
                /\ \A j \in 1..(i - 1) : pics[j].type # "FrontCover"].data
    ELSE pics[1].data

\* The lambda apeTagCover: the bytes of the item after its first zero byte.
apeTagCover(items) ==
    IF ~Contains(items, "COVER ART (FRONT)") THEN <<>>
    ELSE IF IndexOf(Front(items["COVER ART (FRONT)"]), 0) + 1 > 0
            /\ IndexOf(Front(items["COVER ART (FRONT)"]), 0) + 1
                  < Len(Front(items["COVER ART (FRONT)"]))
    THEN SubSeq(Front(items["COVER ART (FRONT)"]),
                IndexOf(Front(items["COVER ART (FRONT)"]), 0) + 2,
                Len(Front(items["COVER ART (FRONT)"])))
    ELSE <<>>

\* QByteArray TagReader::LoadEmbeddedArt(filename): the bytes of the picture
\* taken from file f.
LoadEmbeddedArt(filename, f) ==
    IF filename = <<>> \/ f.kind = "NONE" THEN <<>>
    ELSE IF f.kind = "MPEG"
    THEN IF f.pics = <<>> THEN <<>> ELSE f.pics[1].data
    ELSE IF f.kind \in XiphKinds
    THEN IF f.pics # <<>> THEN FrontCoverOrFirst(f.pics)
         ELSE IF ~Contains(f.kv, "COVERART") THEN <<>>
         ELSE FromBase64(Join(f.kv["COVERART"], <<" ">>))
    ELSE IF f.kind = "FLAC" /\ f.pics # <<>> THEN f.pics[1].data
    ELSE IF f.kind = "MP4" /\ Get(f.kv, "covr") # <<>> THEN f.kv["covr"][1]
    ELSE IF f.kind \in ApeKinds THEN apeTagCover(f.kv)
    ELSE <<>>

(***************************************************************************)
(* Writing                                                                 *)
(***************************************************************************)
\* QString::number(score / 100.0): the hundredths printed by %g.
NumberHundredths(n) ==
    IF n < 0 THEN <<"-">> \o FixedText(0 - n, 2) ELSE FixedText(n, 2)

\* TagLib::String::upper() on the item and field keys the code writes.
UpperKey(key) ==
    CASE key = "disc" -> "DISC"
      [] key = "bpm" -> "BPM"
      [] key = "composer" -> "COMPOSER"
      [] key = "grouping" -> "GROUPING"
      [] key = "performer" -> "PERFORMER"
      [] key = "album artist" -> "ALBUM ARTIST"
      [] key = "lyrics" -> "LYRICS"
      [] key = "compilation" -> "COMPILATION"
      [] key = "FMPS_Rating" -> "FMPS_RATING"
      [] key = "FMPS_PlayCount" -> "FMPS_PLAYCOUNT"
      [] key = "FMPS_Rating_Amarok_Score" -> "FMPS_RATING_AMAROK_SCORE"
      [] OTHER -> key

\* TagLib::Ogg::XiphComment::addField(key, value, replace = true)
XiphAddField(kv, key, value) ==
    IF value = <<>> THEN Remove(kv, UpperKey(key))
    ELSE Put(kv, UpperKey(key), <<value>>)

\* TagLib::APE::Tag::addValue(key, value, replace = true)
ApeAddValue(kv, key, value) ==
    IF value = <<>> THEN Remove(kv, UpperKey(key))
    ELSE Put(kv, UpperKey(key), <<value>>)

\* TagLib::APE::Tag::setItem(key, Item(key, value))
ApeSetItem(kv, key, value) == Put(kv, UpperKey(key), <<value>>)

\* TagLib::ASF::Tag::addAttribute(name, attribute)
AsfAddAttribute(kv, name, value) == Put(kv, name, Get(kv, name) \o <<value>>)

\* TagLib::ID3v2::Tag::setComment(s)
RECURSIVE SetFirstPlainComment(_, _)
SetFirstPlainComment(comm, text) ==
    IF comm = <<>> THEN <<>>
    ELSE IF Head(comm).description = ""
    THEN <<[Head(comm) EXCEPT !.text = text]>> \o Tail(comm)
    ELSE <<Head(comm)>> \o SetFirstPlainComment(Tail(comm), text)

ID3v2SetComment(comm, text) ==
    IF text = <<>> THEN <<>>
    ELSE IF comm = <<>> THEN <<[description |-> "", text |-> text]>>
    ELSE IF \E i \in 1..Len(comm) : comm[i].description = ""
    THEN SetFirstPlainComment(comm, text)
    ELSE <<[comm[1] EXCEPT !.text = text]>> \o Tail(comm)

\* SetTextFrame keeping only the frame that gets the value.
SetTextFrame_Mut(id, value, kv) == Put(kv, id, <<value>>)

\* void TagReader::SetTextFrame(id, value, tag): the frames with this id are
\* taken out and added again, the first one with text = value.
SetTextFrame(id, value, kv) ==
    LET frames_buffer == IF Get(kv, id) = <<>> THEN <<<<>>>> ELSE kv[id]
    IN  Put(kv, id, <<value>> \o Tail(frames_buffer))

\* void TagReader::SetUnsyncLyricsFrame(value, tag)
SetUnsyncLyricsFrame(value, kv) ==
    LET frames_buffer == IF Get(kv, "USLT") = <<>> THEN <<<<>>>> ELSE kv["USLT"]
    IN  Put(kv, "USLT", <<value>> \o Tail(frames_buffer))

\* The frame list without its first frame of the given description.
RECURSIVE RemoveFirstFrame(_, _)
RemoveFirstFrame(txxx, description) ==
    IF txxx = <<>> THEN <<>>
    ELSE IF Head(txxx).description = description THEN Tail(txxx)
    ELSE <<Head(txxx)>> \o RemoveFirstFrame(Tail(txxx), description)

\* SetUserTextFrame removing every frame of the description.
SetUserTextFrame_Mut(description, value, txxx) ==
    SelectSeq(txxx, LAMBDA frame : frame.description # description)
        \o <<[description |-> description, text |-> value]>>

\* void TagReader::SetUserTextFrame(description, value, tag)
SetUserTextFrame(description, value, txxx) ==
    RemoveFirstFrame(txxx, description)
        \o <<[description |-> description, text |-> value]>>

\* GetPOPMFrameFromTag adding a new frame whatever the tag holds.
GetPOPMFrameFromTag_Mut(popm) == <<[rating |-> 0, counter |-> 0]>> \o popm

\* TagReader::GetPOPMFrameFromTag(tag): the POPM list in which the frame the
\* function returns is the first one.
GetPOPMFrameFromTag(popm) ==
    IF popm # <<>> THEN popm ELSE <<[rating |-> 0, counter |-> 0]>>

\* The basic fields SaveFile sets through fileref->tag().
SaveBasic(song, f) ==
    LET g == [f EXCEPT !.title = song.title, !.artist = song.artist,
                       !.album = song.album, !.genre = song.genre,
                       !.year = IF song.year <= -1 THEN 0 ELSE song.year,
                       !.track = IF song.track <= -1 THEN 0 ELSE song.track]
    IN  IF f.kind = "MPEG"
        THEN [g EXCEPT !.comm = ID3v2SetComment(f.comm, song.comment)]
        ELSE [g EXCEPT !.comment = song.comment]

\* void TagReader::SetVorbisComments(vorbis_comments, song)
SetVorbisComments(kv, song) ==
    LET k1 == XiphAddField(kv, "COMPOSER", song.composer)
        k2 == XiphAddField(k1, "PERFORMER", song.performer)
        k3 == XiphAddField(k2, "CONTENT GROUP", song.grouping)
        k4 == XiphAddField(k3, "BPM",
                 IF F32Leq(song.bpm, F32MinusOne) THEN <<>> ELSE NumberF32(song.bpm))
        k5 == XiphAddField(k4, "DISCNUMBER",
                 IF song.disc <= 0 THEN <<>> ELSE NumberInt(song.disc))
        k6 == XiphAddField(k5, "COMPILATION",
                 IF song.compilation THEN NumberInt(1) ELSE <<>>)
        k7 == XiphAddField(k6, "ALBUMARTIST", song.albumartist)
        k8 == Remove(k7, "ALBUM ARTIST")
        k9 == XiphAddField(k8, "LYRICS", song.lyrics)
    IN  Remove(k9, "UNSYNCEDLYRICS")

\* The lambda saveApeTag of SaveFile
saveApeTag(kv, song) ==
    LET k1 == ApeAddValue(kv, "disc",
                 IF song.disc <= 0 THEN <<>> ELSE NumberInt(song.disc))
        k2 == ApeAddValue(k1, "bpm",
                 IF F32Leq(song.bpm, F32MinusOne) THEN <<>> ELSE NumberF32(song.bpm))
        k3 == ApeSetItem(k2, "composer", song.composer)
        k4 == ApeSetItem(k3, "grouping", song.grouping)
        k5 == ApeSetItem(k4, "performer", song.performer)
        k6 == ApeSetItem(k5, "album artist", song.albumartist)
        k7 == ApeSetItem(k6, "lyrics", song.lyrics)
    IN  ApeAddValue(k7, "compilation",
            IF song.compilation THEN NumberInt(1) ELSE <<>>)

\* The ID3v2 branch of SaveFile
SaveID3v2(kv, song) ==
    LET k1 == SetTextFrame("TPOS",
                 IF song.disc <= 0 THEN <<>> ELSE NumberInt(song.disc), kv)
        k2 == SetTextFrame("TBPM",
                 IF F32Leq(song.bpm, F32MinusOne) THEN <<>> ELSE NumberF32(song.bpm), k1)
        k3 == SetTextFrame("TCOM", song.composer, k2)
        k4 == SetTextFrame("TIT1", song.grouping, k3)
        k5 == SetTextFrame("TOPE", song.performer, k4)
        k6 == SetUnsyncLyricsFrame(song.lyrics, k5)
        k7 == SetTextFrame("TPE2", song.albumartist, k6)
    IN  SetTextFrame("TCMP", IF song.compilation THEN NumberInt(1) ELSE <<>>, k7)

\* The MP4 branch of SaveFile
SaveMP4(kv, song) ==
    LET k1 == Put(kv, "disk", <<IF song.disc <= -1 THEN 0 ELSE song.disc, 0>>)
        k2 == Put(k1, "tmpo",
                 <<IF F32Leq(song.bpm, F32MinusOne) THEN <<"0">>
                   ELSE NumberInt(F32ToInt(song.bpm))>>)
        k3 == Put(k2, "(c)wrt", <<song.composer>>)
        k4 == Put(k3, "(c)grp", <<song.grouping>>)
        k5 == Put(k4, "(c)lyr", <<song.lyrics>>)
        k6 == Put(k5, "aART", <<song.albumartist>>)
    IN  Put(k6, "cpil", <<IF song.compilation THEN <<"1">> ELSE <<"0">>>>)

\* The result of a write operation: the file afterwards, the value returned
\* and whether fileref->save() was called.
Result(f, ret, saved) == [file |-> f, ret |-> ret, saved |-> saved]

\* fileref->save() on the modified container g of file f: the file becomes g
\* when the save succeeds and stays f when it fails.
Save(f, g, saveOk) == Result(IF saveOk THEN g ELSE f, saveOk, TRUE)

\* SaveFile once the file is open: the tag is filled from the record and
\* saved.
SaveFileOpened(song, f, saveOk) ==
    LET g == SaveBasic(song, f)
        h == IF f.kind = "MPEG" THEN [g EXCEPT !.kv = SaveID3v2(g.kv, song)]
             ELSE IF f.kind = "FLAC" THEN [g EXCEPT !.kv = SetVorbisComments(g.kv, song)]
             ELSE IF f.kind = "MP4" THEN [g EXCEPT !.kv = SaveMP4(g.kv, song)]
             ELSE IF f.kind \in ApeKinds THEN [g EXCEPT !.kv = saveApeTag(g.kv, song)]
             ELSE IF f.kind \in XiphKinds
             THEN [g EXCEPT !.kv = SetVorbisComments(g.kv, song)]
             ELSE g
    IN  Save(f, h, saveOk)

\* SaveFile without the test of the filename.
SaveFile_Mut(filename, song, f, saveOk) ==
    IF f.kind = "NONE" THEN Result(f, FALSE, FALSE)
    ELSE SaveFileOpened(song, f, saveOk)

\* bool TagReader::SaveFile(filename, song)
SaveFile(filename, song, f, saveOk) ==
    IF filename = NullName THEN Result(f, FALSE, FALSE)
    ELSE IF f.kind = "NONE" THEN Result(f, FALSE, FALSE)
    ELSE SaveFileOpened(song, f, saveOk)

\* void TagReader::SetFMPSStatisticsVorbisComments(vorbis_comments, song)
SetFMPSStatisticsVorbisComments(kv, song) ==
    LET k1 == IF song.playcount # 0
              THEN XiphAddField(kv, "FMPS_PLAYCOUNT", NumberInt(song.playcount))
              ELSE kv
    IN  IF song.score # 0
        THEN XiphAddField(k1, "FMPS_RATING_AMAROK_SCORE", NumberHundredths(song.score))
        ELSE k1

\* void TagReader::SetFMPSRatingVorbisComments(vorbis_comments, song)
SetFMPSRatingVorbisComments(kv, song) ==
    XiphAddField(kv, "FMPS_RATING", NumberF32(song.rating))

\* The lambda saveApeSongStats of SaveSongStatisticsToFile
saveApeSongStats(kv, song) ==
    LET k1 == IF song.score # 0
              THEN ApeSetItem(kv, "FMPS_Rating_Amarok_Score", NumberHundredths(song.score))
              ELSE kv
    IN  IF song.playcount # 0
        THEN ApeSetItem(k1, "FMPS_PlayCount", NumberInt(song.playcount))
        ELSE k1

\* A frame's counter set together with a reset of its rating byte.
SetCounter_Mut(popm, counter) ==
    <<[rating |-> 0, counter |-> counter]>> \o Tail(popm)

\* frame->setCounter(counter) on the first frame of the list
SetCounter(popm, counter) == <<[popm[1] EXCEPT !.counter = counter]>> \o Tail(popm)

\* A frame's rating set together with a reset of its counter.
SetRating_Mut(popm, rating) ==
    <<[rating |-> rating, counter |-> 0]>> \o Tail(popm)

\* frame->setRating(rating) on the first frame of the list
SetRating(popm, rating) == <<[popm[1] EXCEPT !.rating = rating]>> \o Tail(popm)

\* The ID3v2 branch of SaveSongStatisticsToFile
SaveStatisticsID3v2(f, song) ==
    LET g == IF song.playcount # 0
             THEN [f EXCEPT
                     !.txxx = SetUserTextFrame("FMPS_PlayCount",
                                               NumberInt(song.playcount), f.txxx),
                     !.popm = SetCounter(GetPOPMFrameFromTag(f.popm), song.playcount)]
             ELSE f
    IN  IF song.score # 0
        THEN [g EXCEPT !.txxx = SetUserTextFrame("FMPS_Rating_Amarok_Score",
                                                 NumberHundredths(song.score), g.txxx)]
        ELSE g

\* The operation without the final else: the file is saved whatever its
\* family.
SaveSongStatisticsToFile_Mut(filename, song, f, saveOk) ==
    IF filename = NullName \/ f.kind = "NONE" THEN Result(f, FALSE, FALSE)
    ELSE Save(f, f, saveOk)

\* bool TagReader::SaveSongStatisticsToFile(filename, song)
SaveSongStatisticsToFile(filename, song, f, saveOk) ==
    IF filename = NullName THEN Result(f, FALSE, FALSE)
    ELSE IF f.kind = "NONE" THEN Result(f, FALSE, FALSE)
    ELSE IF f.kind = "MPEG" THEN Save(f, SaveStatisticsID3v2(f, song), saveOk)
    ELSE IF f.kind = "FLAC" \/ f.kind \in XiphKinds
    THEN Save(f, [f EXCEPT !.kv = SetFMPSStatisticsVorbisComments(f.kv, song)], saveOk)
    ELSE IF f.kind = "ASF"
    THEN LET k1 == IF song.playcount # 0
                   THEN AsfAddAttribute(f.kv, "FMPS/Playcount", NumberInt(song.playcount))
                   ELSE f.kv
             k2 == IF song.score # 0
                   THEN AsfAddAttribute(k1, "FMPS/Rating_Amarok_Score",
                                        NumberHundredths(song.score))
                   ELSE k1
         IN  Save(f, [f EXCEPT !.kv = k2], saveOk)
    ELSE IF f.kind = "MP4"
    THEN LET k1 == IF song.score # 0
                   THEN Put(f.kv, kMP4_FMPS_Score_ID, <<NumberHundredths(song.score)>>)
                   ELSE f.kv
             k2 == IF song.playcount # 0
                   THEN Put(k1, kMP4_FMPS_Playcount_ID, <<NumberInt(song.playcount)>>)
                   ELSE k1
         IN  Save(f, [f EXCEPT !.kv = k2], saveOk)
    ELSE IF f.kind \in ApeKinds
    THEN Save(f, [f EXCEPT !.kv = saveApeSongStats(f.kv, song)], saveOk)
    ELSE Result(f, TRUE, FALSE)

\* The ID3v2 branch of SaveSongRatingToFile
SaveRatingID3v2(f, song) ==
    [f EXCEPT !.txxx = SetUserTextFrame("FMPS_Rating", NumberF32(song.rating), f.txxx),
              !.popm = SetRating(GetPOPMFrameFromTag(f.popm),
                                 ConvertToPOPMRating(song.rating))]

\* The file is opened before the rating is looked at.
SaveSongRatingToFile_Mut(filename, song, f, saveOk) ==
    IF filename = NullName THEN Result(f, FALSE, FALSE)
    ELSE IF f.kind = "NONE" THEN Result(f, FALSE, FALSE)
    ELSE IF f.kind = "MPEG" THEN Save(f, SaveRatingID3v2(f, song), saveOk)
    ELSE Result(f, TRUE, FALSE)

\* bool TagReader::SaveSongRatingToFile(filename, song)
SaveSongRatingToFile(filename, song, f, saveOk) ==
    IF filename = NullName THEN Result(f, FALSE, FALSE)
    ELSE IF F32LtZero(song.rating) THEN Result(f, TRUE, FALSE)
    ELSE IF f.kind = "NONE" THEN Result(f, FALSE, FALSE)
    ELSE IF f.kind = "MPEG" THEN Save(f, SaveRatingID3v2(f, song), saveOk)
    ELSE IF f.kind = "FLAC" \/ f.kind \in XiphKinds
    THEN Save(f, [f EXCEPT !.kv = SetFMPSRatingVorbisComments(f.kv, song)], saveOk)
    ELSE IF f.kind = "ASF"
    THEN Save(f, [f EXCEPT !.kv = AsfAddAttribute(f.kv, "FMPS/Rating",
                                                  NumberF32(song.rating))], saveOk)
    ELSE IF f.kind = "MP4"
    THEN Save(f, [f EXCEPT !.kv = Put(f.kv, kMP4_FMPS_Rating_ID,
                                      <<NumberF32(song.rating)>>)], saveOk)
    ELSE IF f.kind \in ApeKinds
    THEN Save(f, [f EXCEPT !.kv = ApeSetItem(f.kv, "FMPS_Rating",
                                             NumberF32(song.rating))], saveOk)
    ELSE Result(f, TRUE, FALSE)

(***************************************************************************)
(* The inputs of the model                                                 *)
(***************************************************************************)
\* Bounds: the number of write operations in a run and the number of TXXX
\* frames of the ID3v2 tags read.
MaxOps == 2

MaxFrames == 2

Frame(description, text) == [description |-> description, text |-> text]

Popm(rating, counter) == [rating |-> rating, counter |-> counter]

\* Texts found in the native rating, play count and score slots.
NumberTexts ==
    {<<"0", ".", "4">>, <<"1">>, <<"0">>, <<"5">>, <<"-", "1">>,
     <<" ", "0", ".", "8">>, <<"x">>}

\* FMPS values with a second ("user") scalar, and a malformed one.
FMPSTexts ==
    NumberTexts \cup {<<"0", ".", "6", ":", ":", "0", ".", "8">>,
                      <<"x", ":", ":", "3">>, <<"0", ".", "4", ":">>}

\* The sequences of at most n elements of S.
RECURSIVE SeqsUpTo(_, _)
SeqsUpTo(S, n) ==
    IF n = 0 THEN {<<>>}
    ELSE LET shorter == SeqsUpTo(S, n - 1)
         IN  shorter \cup {Append(q, x) : q \in shorter, x \in S}

\* ID3v2 tags with one FMPS_Rating frame and a POPM frame of every rating
\* byte.
RatingByteFiles ==
    {[EmptyFile("MPEG") EXCEPT !.txxx = <<Frame("FMPS_Rating", t)>>,
                               !.popm = <<Popm(b, c)>>] :
        t \in NumberTexts, b \in 0..255, c \in {0, 3}}

\* ID3v2 tags with up to MaxFrames FMPS frames in every order and some POPM
\* frames.
FMPSFrameFiles ==
    {[EmptyFile("MPEG") EXCEPT !.txxx = fr, !.popm = pp] :
        fr \in SeqsUpTo({Frame(d, t) : d \in {"FMPS_Rating", "FMPS_Rating_User"},
                                       t \in FMPSTexts}
                        \cup {Frame("FMPS_PlayCount", <<"7">>),
                              Frame("FMPS_PlayCount", <<"0">>),
                              Frame("FMPS_PlayCount", <<"7", ":">>),
                              Frame("FMPS_Rating", <<>>),
                              Frame("FMPS_PlayCount_User", <<"0", ":", ":", "2">>),
                              Frame("FMPS_Rating_Amarok_Score", <<"0", ".", "2", "9">>),
                              Frame("replaygain", <<"1">>)},
                        MaxFrames),
        pp \in {<<>>, <<Popm(128, 0)>>, <<Popm(0, 3)>>, <<Popm(255, 2), Popm(1, 9)>>}}

\* The key of the rating, play count and score slot of each keyed family.
RatingKey(kind) ==
    CASE kind = "MP4" -> kMP4_FMPS_Rating_ID
      [] kind = "ASF" -> "FMPS/Rating"
      [] OTHER -> "FMPS_RATING"

PlaycountKey(kind) ==
    CASE kind = "MP4" -> kMP4_FMPS_Playcount_ID
      [] kind = "ASF" -> "FMPS/Playcount"
      [] OTHER -> "FMPS_PLAYCOUNT"

ScoreKey(kind) ==
    CASE kind = "MP4" -> kMP4_FMPS_Score_ID
      [] kind = "ASF" -> "FMPS/Rating_Amarok_Score"
      [] OTHER -> "FMPS_RATING_AMAROK_SCORE"

KeyedKinds == {"FLAC", "OGGVORBIS", "OGGOPUS", "MP4", "ASF", "APE", "MPC", "WAVPACK"}

\* The stores of a family with any text in the rating slot.
RatingStores(k) ==
    {EmptyStore} \cup
    {(RatingKey(k) :> <<t>>) : t \in NumberTexts} \cup
    {(RatingKey(k) :> <<t>>) @@ (PlaycountKey(k) :> <<u>>)
        @@ (ScoreKey(k) :> <<<<"0", ".", "5">>>>) :
        t \in NumberTexts, u \in {<<"3">>, <<"x">>}}

\* Files of the keyed families with any text in the rating slot.
RatingSlotFiles ==
    UNION {{[EmptyFile(k) EXCEPT !.kv = kv] : kv \in RatingStores(k)} : k \in KeyedKinds}

\* The stores with key absent or bound to one of the texts.
Opt(key, texts) == {EmptyStore} \cup {(key :> <<t>>) : t \in texts}

DiscTexts ==
    {<<"2", "/", "1", "0">>, <<"7">>, <<>>, <<"x">>, <<"0", "/", "3">>, <<"1", "2", "/", "x">>}

BpmTexts == {<<"1", "2", "0", ".", "5">>, <<"x">>, <<"0">>}

DateTexts == {<<"2", "0", "1", "0", "-", "0", "5">>, <<"a", "b", "c", "d">>}

YearTexts == {<<"1", "9", "9", "9">>}

\* The stores of a family with any text in its disc, bpm and original year
\* slots.
NumericStores(kind) ==
    IF kind = "MPEG"
    THEN {a @@ b @@ c @@ d : a \in Opt("TPOS", DiscTexts), b \in Opt("TBPM", BpmTexts),
                             c \in Opt("TDOR", DateTexts), d \in Opt("TORY", YearTexts)}
    ELSE IF kind = "MP4"
    THEN {a @@ c : a \in {EmptyStore, ("disk" :> <<2, 10>>), ("disk" :> <<0, 0>>)},
                   c \in Opt(kMP4_OriginalYear_ID, DateTexts \cup YearTexts)}
    ELSE IF kind = "ASF"
    THEN {c @@ d : c \in Opt(kASF_OriginalDate_ID, DateTexts),
                   d \in Opt(kASF_OriginalYear_ID, YearTexts)}
    ELSE IF kind \in ApeKinds
    THEN {a @@ b @@ c : a \in Opt("DISC", DiscTexts), b \in Opt("BPM", BpmTexts),
                        c \in Opt("PERFORMER", {<<"h">>})}
    ELSE IF kind = "FLAC" \/ kind \in XiphKinds
    THEN {a @@ b @@ c @@ d : a \in Opt("DISCNUMBER", DiscTexts), b \in Opt("BPM", BpmTexts),
                             c \in Opt("ORIGINALDATE", DateTexts),
                             d \in Opt("ORIGINALYEAR", YearTexts \cup {<<"x">>})}
    ELSE {EmptyStore}

Audios ==
    {NoAudio,
     [present |-> TRUE, bitrate |-> 0, samplerate |-> 0, length |-> 0],
     [present |-> TRUE, bitrate |-> 320, samplerate |-> 44100, length |-> 2]}

\* Files with any text in the numeric slots.
NumericFiles ==
    UNION {{[EmptyFile(k) EXCEPT !.kv = kv, !.audio = au, !.year = y[1], !.track = y[2]] :
               kv \in NumericStores(k), au \in Audios, y \in {<<0, 0>>, <<1999, 7>>}} :
           k \in {"MPEG", "FLAC", "OGGVORBIS", "MP4", "ASF", "APE", "WAV"}}

\* The key of the compilation slot of each family that has one.
CompilationKey(kind) ==
    CASE kind = "MPEG" -> "TCMP"
      [] kind = "MP4" -> "cpil"
      [] OTHER -> "COMPILATION"

CompilationKinds == {"MPEG", "FLAC", "OGGVORBIS", "APE", "MP4"}

\* Files with and without a compilation slot, by artists that are and are not
\* "various artists".
CompilationFiles ==
    UNION {{[EmptyFile(k) EXCEPT !.kv = kv, !.artist = a] :
               kv \in Opt(CompilationKey(k), {<<"1">>, <<"0">>, <<" ", "1">>, <<"x">>}),
               a \in {<<"V", "a", "r", "i", "o", "u", "s", " ",
                        "A", "R", "T", "I", "S", "T", "S">>,
                      <<"R", "a", "d", "i", "o", "h", "e", "a", "d">>}} :
           k \in CompilationKinds}

\* The stores of a family with and without its cover art keys.
ArtStores(kind) ==
    IF kind = "MP4"
    THEN Opt("covr", {<<1, 2>>}) \cup {"covr" :> <<>>, "covr" :> <<<<3>>, <<1, 2>>>>}
    ELSE IF kind \in ApeKinds
    THEN Opt("COVER ART (FRONT)", {<<99, 0, 1, 2>>, <<99, 0>>, <<1, 2>>})
    ELSE IF kind = "FLAC" \/ kind \in XiphKinds
    THEN Opt("COVERART", {<<"A", "Q", "I", "=">>})
            \cup {"COVERART" :> <<<<"A", "Q">>, <<"I", "=">>>>}
            \cup Opt("METADATA_BLOCK_PICTURE", {<<"p">>})
    ELSE {EmptyStore}

\* A picture of the given type and bytes.
Picture(type, data) == [type |-> type, data |-> data]

\* Picture lists: empty, a front cover alone, a front cover after another
\* picture, and two pictures neither of which is a front cover.
PictureLists ==
    {<<>>,
     <<Picture("FrontCover", <<1, 2>>)>>,
     <<Picture("BackCover", <<3>>), Picture("FrontCover", <<1, 2>>)>>,
     <<Picture("Other", <<4>>), Picture("BackCover", <<3>>)>>}

\* Files of every family with and without pictures; only ID3v2 tags (APIC
\* frames), Xiph comments and FLAC files have a picture list.
ArtFiles ==
    UNION {{[EmptyFile(k) EXCEPT !.kv = kv, !.pics = pics] :
               kv \in ArtStores(k),
               pics \in IF k = "MPEG" \/ k = "FLAC" \/ k \in XiphKinds
                        THEN PictureLists
                        ELSE {<<>>}} :
           k \in Kinds}

FsInfos ==
    {[size |-> 0, mtime |-> 0, btime |-> -1],
     [size |-> 9, mtime |-> 7, btime |-> 3],
     [size |-> 9, mtime |-> 7, btime |-> -1]}

\* Files TagLib cannot open.
NullFiles ==
    {[NoFile EXCEPT !.fs = fs, !.gme = g, !.title = IF g THEN <<"g">> ELSE <<>>] :
        fs \in FsInfos, g \in BOOLEAN}

ReadFiles == RatingByteFiles \cup FMPSFrameFiles \cup RatingSlotFiles \cup NumericFiles
                \cup NullFiles \cup CompilationFiles \cup ArtFiles

\* A file of the given kind with every slot of its family filled.
Tagged(kind) ==
    LET base == [EmptyFile(kind) EXCEPT
                    !.title = <<"t">>, !.artist = <<"r">>, !.album = <<"l">>,
                    !.genre = <<"g">>, !.year = 1999, !.track = 7,
                    !.fs = [size |-> 9, mtime |-> 7, btime |-> 3],
                    !.audio = [present |-> TRUE, bitrate |-> 320,
                               samplerate |-> 44100, length |-> 2]]
    IN  IF kind = "MPEG"
        THEN [base EXCEPT
                !.kv = ("TPOS" :> <<<<"1", "/", "2">>>>) @@ ("TCOM" :> <<<<"p">>, <<"q">>>>)
                       @@ ("TBPM" :> <<<<"9", "0">>>>) @@ ("TCMP" :> <<<<"1">>>>)
                       @@ ("USLT" :> <<<<"x">>, <<"y">>>>) @@ ("TDOR" :> <<<<"1", "9", "9", "0">>>>),
                !.txxx = <<Frame("FMPS_Rating", <<"0", ".", "6">>),
                           Frame("FMPS_PlayCount", <<"7">>),
                           Frame("replaygain", <<"1">>),
                           Frame("FMPS_Rating_User", <<"0", ":", ":", "0", ".", "8">>)>>,
                !.popm = <<Popm(128, 4), Popm(1, 9)>>,
                !.comm = <<Frame("iTunNORM", <<"n">>), Frame("", <<"c">>)>>]
        ELSE IF kind \in KeyedKinds
        THEN [base EXCEPT
                !.comment = <<"c">>,
                !.kv = (RatingKey(kind) :> <<<<"0", ".", "6">>>>)
                       @@ (PlaycountKey(kind) :> <<<<"7">>>>)
                       @@ (ScoreKey(kind) :> <<<<"0", ".", "5">>>>)]
        ELSE [base EXCEPT !.comment = <<"c">>]

\* An ID3v2 tag with FMPS frames and no POPM frame.
TaggedNoPopm == [Tagged("MPEG") EXCEPT !.popm = <<>>]

\* An ID3v2 tag with two FMPS_Rating and two FMPS_PlayCount frames.
TaggedTwice ==
    [EmptyFile("MPEG") EXCEPT
        !.txxx = <<Frame("FMPS_Rating", <<"0", ".", "2">>),
                   Frame("FMPS_PlayCount", <<"7">>),
                   Frame("replaygain", <<"1">>),
                   Frame("FMPS_PlayCount", <<"9">>),
                   Frame("FMPS_Rating", <<"0", ".", "8">>)>>]

SaveFiles ==
    {EmptyFile(k) : k \in Kinds} \cup {Tagged(k) : k \in Kinds}
        \cup {TaggedNoPopm, TaggedTwice, NoFile}

\* The records handed to the write operations.
SongFull ==
    [NewSong EXCEPT
        !.valid = TRUE, !.title = <<"a">>, !.artist = <<"b">>, !.album = <<"c">>,
        !.genre = <<"d">>, !.comment = <<"e">>, !.albumartist = <<"f">>,
        !.composer = <<"g">>, !.performer = <<"h">>, !.grouping = <<"i">>,
        !.lyrics = <<"j">>, !.year = 2001, !.track = 3, !.disc = 2,
        !.bpm = ToF32(FALSE, 1205, 10), !.compilation = TRUE,
        !.rating = ToF32(FALSE, 4, 10), !.playcount = 3, !.score = 29]

Songs ==
    {NewSong,
     SongFull,
     [SongFull EXCEPT !.rating = F32Zero, !.playcount = 0, !.score = 50,
                      !.compilation = FALSE, !.bpm = F32MinusOne, !.disc = -1],
     [NewSong EXCEPT !.rating = F32One, !.playcount = 5, !.title = <<"a">>],
     [SongFull EXCEPT !.rating = F32MinusOne, !.score = 0, !.comment = <<>>,
                      !.artist = <<"V", "a", "r", "i", "o", "u", "s", " ",
                                   "A", "r", "t", "i", "s", "t", "s">>,
                      !.compilation = FALSE]}

\* The float before x and the float after x (x > 0).
F32Pred(x) ==
    IF x.m = 8388608 THEN [x EXCEPT !.m = 16777215, !.e = @ - 1]
    ELSE [x EXCEPT !.m = @ - 1]

F32Succ(x) ==
    IF x.m = 16777215 THEN [x EXCEPT !.m = 8388608, !.e = @ + 1]
    ELSE [x EXCEPT !.m = @ + 1]

\* The ratings handed to ConvertToPOPMRating: the hundredths and the 125ths
\* from 0 to 1.1, some negative ratings, and the floats next to each fifth.
RatingInputs ==
    {ToF32(FALSE, k, 100) : k \in 0..110}
        \cup {ToF32(FALSE, k, 125) : k \in 0..137}
        \cup {ToF32(TRUE, k, 10) : k \in 1..10}
        \cup UNION {{F32Pred(ToF32(FALSE, k, 5)), F32Succ(ToF32(FALSE, k, 5))} : k \in 1..5}

\* The sets of classes a file object handed to GuessFileType can be cast to:
\* none, one (every file TagLib creates), or two (a file class of a
\* FileTypeResolver that derives from two of them).
ClassSets == {c \in SUBSET Kinds : Cardinality(c) <= 2}

(***************************************************************************)
(* The state machine                                                       *)
(***************************************************************************)
VARIABLES
    disk,    \* the file at kPath
    pre,     \* the file before the last operation
    song,    \* the record the last ReadFile returned
    arg,     \* the record handed to the last write operation
    fname,   \* the filename handed to the last operation
    op,      \* the last operation
    ret,     \* the value the last write operation returned
    saved,   \* whether the last operation called fileref->save()
    n,       \* the number of write operations so far
    codec,   \* the rating codec applied to one POPM byte
    art      \* the bytes the last LoadEmbeddedArt returned

vars == <<disk, pre, song, arg, fname, op, ret, saved, n, codec, art>>

CodecIdle ==
    [pc |-> "idle", b |-> 0, dec |-> F32Zero, enc |-> 0, redec |-> F32Zero,
     classes |-> {}, type |-> "UNKNOWN"]

InitCommon ==
    /\ song = NewSong
    /\ arg = NewSong
    /\ fname = kPath
    /\ op = "none"
    /\ ret = TRUE
    /\ saved = FALSE
    /\ n = 0
    /\ art = <<>>

Init ==
    /\ disk \in SaveFiles
    /\ pre = disk
    /\ codec = CodecIdle
    /\ InitCommon

InitRead ==
    /\ disk \in ReadFiles
    /\ pre = disk
    /\ codec = CodecIdle
    /\ InitCommon

InitCodec ==
    /\ disk = NoFile
    /\ pre = disk
    /\ codec \in {[CodecIdle EXCEPT !.pc = "start", !.b = b] : b \in 0..255}
                    \cup {[CodecIdle EXCEPT !.pc = "rating", !.dec = r] : r \in RatingInputs}
                    \cup {[CodecIdle EXCEPT !.pc = "file", !.classes = c] : c \in ClassSets}
    /\ InitCommon

ReadFileStep ==
    /\ codec.pc = "idle"
    /\ song' = ReadFile(kPath, disk)
    /\ op' = "ReadFile"
    /\ fname' = kPath
    /\ pre' = disk
    /\ saved' = FALSE
    /\ UNCHANGED <<disk, arg, ret, n, codec, art>>

LoadEmbeddedArtStep ==
    /\ codec.pc = "idle"
    /\ \E filename \in {kPath, NullName} :
          /\ art' = LoadEmbeddedArt(filename, disk)
          /\ fname' = filename
    /\ op' = "LoadEmbeddedArt"
    /\ pre' = disk
    /\ saved' = FALSE
    /\ UNCHANGED <<disk, song, arg, ret, n, codec>>

\* A write operation with result r.
Write(name, filename, s, r) ==
    /\ disk' = r.file
    /\ pre' = disk
    /\ arg' = s
    /\ fname' = filename
    /\ op' = name
    /\ ret' = r.ret
    /\ saved' = r.saved
    /\ n' = n + 1
    /\ UNCHANGED <<song, codec, art>>

SaveFileStep ==
    /\ codec.pc = "idle"
    /\ n < MaxOps
    /\ \E filename \in {kPath, NullName}, s \in Songs, saveOk \in BOOLEAN :
          Write("SaveFile", filename, s, SaveFile(filename, s, disk, saveOk))

SaveSongStatisticsToFileStep ==
    /\ codec.pc = "idle"
    /\ n < MaxOps
    /\ \E filename \in {kPath, NullName}, s \in Songs, saveOk \in BOOLEAN :
          Write("SaveSongStatisticsToFile", filename, s,
                SaveSongStatisticsToFile(filename, s, disk, saveOk))

SaveSongRatingToFileStep ==
    /\ codec.pc = "idle"
    /\ n < MaxOps
    /\ \E filename \in {kPath, NullName}, s \in Songs, saveOk \in BOOLEAN :
          Write("SaveSongRatingToFile", filename, s,
                SaveSongRatingToFile(filename, s, disk, saveOk))

\* The rating codec applied to the byte b: decode, encode, decode again.
DecodeStep ==
    /\ codec.pc = "start"
    /\ codec' = [codec EXCEPT !.pc = "decoded", !.dec = ConvertPOPMRating(codec.b)]
    /\ UNCHANGED <<disk, pre, song, arg, fname, op, ret, saved, n, art>>

EncodeStep ==
    /\ codec.pc = "decoded"
    /\ codec' = [codec EXCEPT !.pc = "encoded", !.enc = ConvertToPOPMRating(codec.dec)]
    /\ UNCHANGED <<disk, pre, song, arg, fname, op, ret, saved, n, art>>

RedecodeStep ==
    /\ codec.pc = "encoded"
    /\ codec' = [codec EXCEPT !.pc = "done", !.redec = ConvertPOPMRating(codec.enc)]
    /\ UNCHANGED <<disk, pre, song, arg, fname, op, ret, saved, n, art>>

\* ConvertToPOPMRating applied to the rating dec.
ConvertToPOPMRatingStep ==
    /\ codec.pc = "rating"
    /\ codec' = [codec EXCEPT !.pc = "converted", !.enc = ConvertToPOPMRating(codec.dec)]
    /\ UNCHANGED <<disk, pre, song, arg, fname, op, ret, saved, n, art>>

\* GuessFileType applied to a file object of the given classes.
GuessFileTypeStep ==
    /\ codec.pc = "file"
    /\ codec' = [codec EXCEPT !.pc = "guessed", !.type = GuessFileTypeOf(codec.classes)]
    /\ UNCHANGED <<disk, pre, song, arg, fname, op, ret, saved, n, art>>

Next ==
    \/ ReadFileStep
    \/ SaveFileStep
    \/ SaveSongStatisticsToFileStep
    \/ SaveSongRatingToFileStep

NextRead ==
    \/ ReadFileStep
    \/ LoadEmbeddedArtStep

NextCodec ==
    \/ DecodeStep
    \/ EncodeStep
    \/ RedecodeStep
    \/ ConvertToPOPMRatingStep
    \/ GuessFileTypeStep

\* Reads and writes of one file.
Spec == Init /\ [][Next]_vars

\* ReadFile applied to each file of ReadFiles.
SpecRead == InitRead /\ [][NextRead]_vars

\* The pure functions: the rating codec applied to each byte and to each
\* rating of RatingInputs, GuessFileType to each set of ClassSets.
SpecCodec == InitCodec /\ [][NextCodec]_vars

(***************************************************************************)
(* Properties of ReadFile                                                  *)
(***************************************************************************)
\* Whether the text of an FMPS frame has a numeric first value.
HasNumericFirst(text) ==
    LET parser == FMPSParse(text)
    IN  parser.ok /\ parser.result # <<>> /\ parser.result[1][1].type = "Double"

\* The indices of the FMPS_Rating frames with a numeric first value.
NumericRatingFrames(txxx) ==
    {i \in 1..Len(txxx) :
        txxx[i].description = "FMPS_Rating" /\ HasNumericFirst(txxx[i].text)}

\* The first value of the last such frame, as a float.
FMPSRatingOf(txxx) ==
    LET last == CHOOSE i \in NumericRatingFrames(txxx) :
                    \A j \in NumericRatingFrames(txxx) : j <= i
    IN  DecimalToF32(ParseDecimal(Trimmed(SplitOn(txxx[last].text, ":")[1])))

\* ReadFile has just read an ID3v2 tag with a numeric FMPS_Rating frame and a
\* POPM frame.
ReadBothRatings ==
    /\ op = "ReadFile"
    /\ pre.kind = "MPEG"
    /\ pre.popm # <<>>
    /\ NumericRatingFrames(pre.txxx) # {}

\* C1 (as stated): with a numeric FMPS_Rating frame and a POPM frame in the
\* ID3v2 tag, the rating ReadFile returns is the FMPS value, for every FMPS
\* value and every POPM rating byte.
C1_FMPSAlwaysWins ==
    ReadBothRatings => song.rating = FMPSRatingOf(pre.txxx)

\* C1 (amended): with a numeric FMPS_Rating frame whose value is greater
\* than 0 and a POPM frame in the ID3v2 tag, the rating ReadFile returns is the
\* FMPS value, for every POPM rating byte.
C1_PositiveFMPSWins ==
    (ReadBothRatings /\ F32GtZero(FMPSRatingOf(pre.txxx)))
        => song.rating = FMPSRatingOf(pre.txxx)

\* An FMPS rating of 0.4 read next to a POPM byte that decodes to 0.6.
C1_Witness ==
    /\ ReadBothRatings
    /\ pre.popm[1].rating = 128
    /\ FMPSRatingOf(pre.txxx) = ToF32(FALSE, 4, 10)
    /\ song.rating = ToF32(FALSE, 4, 10)

\* C2: after ReadFile on a file of any family, the rating of the record is
\* -1 or lies in [0, 1].
C2_RatingInRange ==
    op = "ReadFile" =>
        \/ song.rating = F32MinusOne
        \/ (~F32LtZero(song.rating) /\ F32Leq(song.rating, F32One))

\* C3: after ReadFile on a file TagLib can open, each of year, track, disc,
\* bpm, bitrate, samplerate, lastplayed and originalyear is greater than 0 or
\* exactly -1.
C3_NumericSentinels ==
    (op = "ReadFile" /\ pre.kind # "NONE") =>
        /\ \A field \in {"year", "track", "disc", "bitrate", "samplerate",
                         "lastplayed", "originalyear"} :
              song[field] > 0 \/ song[field] = -1
        /\ (F32GtZero(song.bpm) \/ song.bpm = F32MinusOne)

(***************************************************************************)
(* Properties of the rating codec                                          *)
(***************************************************************************)
\* C10: for every byte b, decoding, encoding and decoding again gives the
\* rating the first decoding gave; the byte 0x50 decodes to 0.40 and 0.40
\* encodes to 0x40.
C10_CodecIdempotent ==
    /\ codec.pc = "done" => codec.redec = codec.dec
    /\ (codec.pc \in {"encoded", "done"} /\ codec.b = 80) =>
          (codec.dec = ToF32(FALSE, 40, 100) /\ codec.enc = 64)

\* The byte 0x50 after the three steps.
C10_Witness ==
    /\ codec.pc = "done"
    /\ codec.b = 80
    /\ codec.enc = 64
    /\ codec.redec = ToF32(FALSE, 40, 100)

\* The six ratings of the decoding table.
SixRatings == {F32Zero, F32One} \cup {ToF32(FALSE, k, 5) : k \in 1..4}

\* The rating the six-bucket table gives the byte b.
PopmBucket(b) ==
    CASE b = 0 -> F32Zero
      [] b \in 1..63 -> ToF32(FALSE, 1, 5)
      [] b \in 64..127 -> ToF32(FALSE, 2, 5)
      [] b \in 128..191 -> ToF32(FALSE, 3, 5)
      [] b \in 192..251 -> ToF32(FALSE, 4, 5)
      [] b \in 252..255 -> F32One

\* C11: ConvertPOPMRating maps every byte 0..255 by the six-bucket table
\* (0x00 -> 0, 0x01..0x3F -> 0.2, 0x40..0x7F -> 0.4, 0x80..0xBF -> 0.6,
\* 0xC0..0xFB -> 0.8, 0xFC..0xFF -> 1); the result is one of these six ratings
\* and no smaller byte decodes to a greater rating.
C11_SixBuckets ==
    codec.pc \in {"decoded", "encoded", "done"} =>
        /\ codec.dec = PopmBucket(codec.b)
        /\ codec.dec \in SixRatings
        /\ \A b \in 0..255 :
              b <= codec.b => F32Leq(ConvertPOPMRating(b), codec.dec)

\* The byte 0xFC decoded to five stars.
C11_Witness ==
    /\ codec.pc = "decoded"
    /\ codec.b = 252
    /\ codec.dec = F32One

\* x < k/5 for the real number the float x denotes (k in 1..5).
BelowFifths(x, k) ==
    IF x.m = 0 \/ x.neg THEN TRUE
    ELSE IF x.e > 0 THEN FALSE
    ELSE IF x.e < -27 THEN TRUE
    ELSE 5 * x.m < k * Pow2(0 - x.e)

\* The six bytes of the encoding table.
SixBytes == {0, 1, 64, 128, 192, 255}

\* C12: ConvertToPOPMRating maps a rating r by the thresholds r < 0.2 -> 0x00,
\* r < 0.4 -> 0x01, r < 0.6 -> 0x40, r < 0.8 -> 0x80, r < 1 -> 0xC0 and
\* r = 1 -> 0xFF; the result is one of these six bytes and no smaller rating
\* encodes to a greater byte.
C12_ByteThresholds ==
    codec.pc = "converted" =>
        /\ BelowFifths(codec.dec, 1) => codec.enc = 0
        /\ (~BelowFifths(codec.dec, 1) /\ BelowFifths(codec.dec, 2)) => codec.enc = 1
        /\ (~BelowFifths(codec.dec, 2) /\ BelowFifths(codec.dec, 3)) => codec.enc = 64
        /\ (~BelowFifths(codec.dec, 3) /\ BelowFifths(codec.dec, 4)) => codec.enc = 128
        /\ (~BelowFifths(codec.dec, 4) /\ BelowFifths(codec.dec, 5)) => codec.enc = 192
        /\ codec.dec = F32One => codec.enc = 255
        /\ codec.enc \in SixBytes
        /\ \A r \in RatingInputs :
              F32Leq(r, codec.dec) => ConvertToPOPMRating(r) <= codec.enc

\* The float nearest to 0.2, which is not below 0.2, encoded to 0x01.
C12_Witness ==
    /\ codec.pc = "converted"
    /\ codec.dec = ToF32(FALSE, 1, 5)
    /\ ~BelowFifths(codec.dec, 1)
    /\ codec.enc = 1

(***************************************************************************)
(* Properties of the write operations                                      *)
(***************************************************************************)
WriteOps == {"SaveFile", "SaveSongStatisticsToFile", "SaveSongRatingToFile"}

\* The keys of the play count and score slots and of the rating slots.
StatKeys ==
    {"FMPS_PLAYCOUNT", "FMPS_RATING_AMAROK_SCORE", "FMPS/Playcount",
     "FMPS/Rating_Amarok_Score", kMP4_FMPS_Playcount_ID, kMP4_FMPS_Score_ID}

RatingKeys == {"FMPS_RATING", "FMPS/Rating", kMP4_FMPS_Rating_ID}

Without(kv, keys) == [k \in DOMAIN kv \ keys |-> kv[k]]

RECURSIVE FramesWithout(_, _)
FramesWithout(txxx, descriptions) ==
    IF txxx = <<>> THEN <<>>
    ELSE IF Head(txxx).description \in descriptions
    THEN FramesWithout(Tail(txxx), descriptions)
    ELSE <<Head(txxx)>> \o FramesWithout(Tail(txxx), descriptions)

\* The POPM frames of a tag; a tag without a POPM frame counts as one whose
\* frame has rating byte 0 (unknown) and counter 0.
PopmOf(f) == IF f.popm = <<>> THEN <<Popm(0, 0)>> ELSE f.popm

\* The file without its play count and score slots.
StripStats(f) ==
    [f EXCEPT !.kv = Without(f.kv, StatKeys),
              !.txxx = FramesWithout(f.txxx, {"FMPS_PlayCount", "FMPS_Rating_Amarok_Score"}),
              !.popm = [i \in 1..Len(PopmOf(f)) |-> [PopmOf(f)[i] EXCEPT !.counter = 0]]]

\* The file without its rating slots.
StripRating(f) ==
    [f EXCEPT !.kv = Without(f.kv, RatingKeys),
              !.txxx = FramesWithout(f.txxx, {"FMPS_Rating"}),
              !.popm = [i \in 1..Len(PopmOf(f)) |-> [PopmOf(f)[i] EXCEPT !.rating = 0]]]

\* The record ReadFile returns without its play count and score.
NoStats(s) == [s EXCEPT !.playcount = 0, !.score = 0]

\* C4: SaveSongStatisticsToFile leaves every slot of the file other than the
\* play count and score slots as it was, and ReadFile returns the same rating
\* and the same basic and descriptive fields before and after it.
C4_StatisticsFrame ==
    op = "SaveSongStatisticsToFile" =>
        /\ StripStats(disk) = StripStats(pre)
        /\ NoStats(ReadFile(kPath, disk)) = NoStats(ReadFile(kPath, pre))

\* A play count written into an ID3v2 tag whose POPM frame has a rating byte.
C4_Witness ==
    /\ op = "SaveSongStatisticsToFile"
    /\ ret /\ saved
    /\ pre.kind = "MPEG"
    /\ pre.popm # <<>> /\ pre.popm[1].rating = 128 /\ pre.popm[1].counter = 4
    /\ disk.popm[1].rating = 128 /\ disk.popm[1].counter = 3
    /\ disk.txxx # pre.txxx

\* C5 (as stated): with a record whose rating is -1, SaveSongRatingToFile
\* returns success, leaves the file as it was and does not call save.
C5_UnratedIsNoOp ==
    (op = "SaveSongRatingToFile" /\ arg.rating = F32MinusOne) =>
        (ret /\ ~saved /\ disk = pre)

\* C5 (amended): with a non-null filename and a record whose rating is -1,
\* SaveSongRatingToFile returns success, leaves the file as it was and does
\* not call save.
C5_UnratedNamedIsNoOp ==
    (op = "SaveSongRatingToFile" /\ arg.rating = F32MinusOne /\ fname # NullName) =>
        (ret /\ ~saved /\ disk = pre)

\* An unrated record and an ID3v2 tag that has no POPM frame.
C5_Witness ==
    /\ op = "SaveSongRatingToFile"
    /\ arg.rating = F32MinusOne
    /\ fname = kPath
    /\ pre.kind = "MPEG" /\ pre.popm = <<>>
    /\ ret /\ disk.popm = <<>>

\* C6: SaveSongRatingToFile with a rating of 0 or more leaves every slot of
\* the file other than the rating slots as it was, the counter of a POPM
\* frame included.
C6_RatingFrame ==
    (op = "SaveSongRatingToFile" /\ ~F32LtZero(arg.rating)) =>
        StripRating(disk) = StripRating(pre)

\* A rating written into an ID3v2 tag whose POPM frame has a counter.
C6_Witness ==
    /\ op = "SaveSongRatingToFile"
    /\ ret /\ saved
    /\ arg.rating = ToF32(FALSE, 4, 10)
    /\ pre.kind = "MPEG"
    /\ pre.popm # <<>> /\ pre.popm[1].rating = 128 /\ pre.popm[1].counter = 4
    /\ disk.popm[1].rating = 64 /\ disk.popm[1].counter = 4

\* A write operation has just been called on an unavailable container.
WroteUnavailable == op \in WriteOps /\ (fname = NullName \/ pre.kind = "NONE")

\* The rating is below 0 and SaveSongRatingToFile returns before it opens
\* the file.
UnratedShortcut ==
    op = "SaveSongRatingToFile" /\ fname # NullName /\ F32LtZero(arg.rating)

\* C7 (as stated): on an unavailable container each write operation returns
\* failure and changes nothing.
C7_UnavailableFails ==
    WroteUnavailable => (~ret /\ ~saved /\ disk = pre)

\* C7 (amended): on an unavailable container each write operation changes
\* nothing and returns failure, except SaveSongRatingToFile with a non-null
\* filename and a rating below 0, which returns success.
C7_UnavailableFailsButUnrated ==
    WroteUnavailable =>
        /\ ~saved /\ disk = pre
        /\ ret = UnratedShortcut

\* A rated record and a file that cannot be opened.
C7_Witness ==
    /\ op = "SaveSongRatingToFile"
    /\ fname = kPath
    /\ pre.kind = "NONE"
    /\ arg.rating = ToF32(FALSE, 4, 10)
    /\ ~ret /\ disk = pre

\* C8 (as stated): ReadFile on a file TagLib cannot open returns a record
\* with valid = false and every field at its default.
C8_UnavailableLeavesDefaults ==
    (op = "ReadFile" /\ pre.kind = "NONE") => song = NewSong

IdentityFields == {"basefilename", "url", "filesize", "mtime", "ctime"}

\* C8 (amended): ReadFile on a file neither TagLib nor the GME reader can
\* open returns a record with valid = false and every field other than the
\* identity fields at its default; basefilename, url, filesize, mtime and ctime
\* are assigned from the path and the filesystem, ctime being the birth time
\* or, when the filesystem reports none, the modification time.
C8_UnavailableKeepsIdentityOnly ==
    (op = "ReadFile" /\ pre.kind = "NONE" /\ ~pre.gme) =>
        /\ song.valid = FALSE
        /\ \A field \in DOMAIN NewSong \ IdentityFields : song[field] = NewSong[field]
        /\ song.basefilename = kPath
        /\ song.url = UrlOf(kPath)
        /\ song.filesize = pre.fs.size
        /\ song.mtime = pre.fs.mtime
        /\ song.ctime = (IF pre.fs.btime = -1 THEN pre.fs.mtime ELSE pre.fs.btime)

\* A file that cannot be opened, on a filesystem without birth times.
C8_Witness ==
    /\ op = "ReadFile"
    /\ pre.kind = "NONE" /\ ~pre.gme
    /\ pre.fs.btime = -1 /\ pre.fs.mtime = 7
    /\ song.valid = FALSE /\ song.ctime = 7 /\ song.filesize = 9

\* The families SaveFile has a branch for.
MappedKinds == {"MPEG", "FLAC", "MP4"} \cup XiphKinds \cup ApeKinds

\* The basic fields and the fields SaveFile writes for a family (the MP4
\* branch writes no performer).
RoundTripFields(kind) ==
    {"title", "artist", "album", "genre", "comment", "year", "track", "disc", "bpm",
     "composer", "grouping", "albumartist", "lyrics", "compilation"}
        \cup (IF kind = "MP4" THEN {} ELSE {"performer"})

\* ReadFile takes a record without a compilation slot for a compilation when
\* its artist is "various artists"; the records below are the others.
VariousArtists ==
    <<"v", "a", "r", "i", "o", "u", "s", " ", "a", "r", "t", "i", "s", "t", "s">>

\* C9: after a SaveFile of record R that succeeded on a file of a mapped
\* family, ReadFile returns R's value for every basic field and for disc, bpm,
\* composer, performer, grouping, album artist, lyrics and compilation (R
\* being a record whose artist is not "various artists").
C9_SaveThenRead ==
    (op = "SaveFile" /\ ret /\ pre.kind \in MappedKinds
        /\ ToLower(arg.artist) # VariousArtists) =>
        \A field \in RoundTripFields(pre.kind) :
            ReadFile(kPath, disk)[field] = arg[field]

(***************************************************************************)
(* Properties of the fields ReadFile resolves                              *)
(***************************************************************************)
\* The value list of the family's disc slot; MP4 keeps an int pair instead.
DiscSlot(f) ==
    IF f.kind = "MPEG" THEN Get(f.kv, "TPOS")
    ELSE IF f.kind = "FLAC" \/ f.kind \in XiphKinds THEN Get(f.kv, "DISCNUMBER")
    ELSE IF f.kind \in ApeKinds THEN Get(f.kv, "DISC")
    ELSE <<>>

\* The greatest disc number and disc total the property ranges over.
MaxDisc == 12

\* C13: a disc text "N/M" gives disc = N whatever M is, a bare "N" gives
\* disc = N (N a disc number, 1 or more), and an empty or absent disc text
\* leaves disc at -1; the MP4 pair (N, M) gives N likewise.
C13_DiscLeftOperand ==
    op = "ReadFile" /\ pre.kind # "NONE" =>
        /\ \A N \in 1..MaxDisc :
              /\ DiscSlot(pre) = <<NatDigits(N)>> => song.disc = N
              /\ \A M \in 0..MaxDisc :
                    /\ DiscSlot(pre) = <<NatDigits(N) \o <<"/">> \o NatDigits(M)>>
                          => song.disc = N
                    /\ (pre.kind = "MP4" /\ Get(pre.kv, "disk") = <<N, M>>)
                          => song.disc = N
        /\ (DiscSlot(pre) \in {<<>>, <<Empty>>} /\ ~Contains(pre.kv, "disk"))
              => song.disc = -1

\* The text "2/10" read as disc 2.
C13_Witness ==
    /\ op = "ReadFile"
    /\ DiscSlot(pre) = <<<<"2", "/", "1", "0">>>>
    /\ song.disc = 2

\* The value list of the family's compilation slot.
CompilationSlot(f) == Get(f.kv, CompilationKey(f.kind))

\* C14: for a family with a compilation key (ID3v2 TCMP, Xiph COMPILATION, APE
\* COMPILATION, MP4 cpil), without the field compilation is true exactly when
\* the artist is "various artists" in any case; with the field it is true
\* exactly when the field's value is 1, whatever the artist.
C14_CompilationResolved ==
    (op = "ReadFile" /\ pre.kind \in CompilationKinds) =>
        IF CompilationSlot(pre) = <<>>
        THEN song.compilation = (ToLower(song.artist) = VariousArtists)
        ELSE song.compilation = (QStringToInt(Front(CompilationSlot(pre))) = 1)

(***************************************************************************)
(* Properties of GuessFileType                                             *)
(***************************************************************************)
\* The families in the order of the tests.
FamilyOrder ==
    <<"ASF", "FLAC", "MP4", "MPC", "MPEG", "OGGFLAC", "OGGSPEEX", "OGGVORBIS",
      "OGGOPUS", "AIFF", "WAV", "TRUEAUDIO", "WAVPACK", "APE">>

\* The positions in FamilyOrder of the families the classes match.
Matching(classes) == {i \in 1..Len(FamilyOrder) : FamilyOrder[i] \in classes}

\* C15: GuessFileType returns the type of the first family, in the order ASF,
\* FLAC, MP4, MPC, MPEG, OGG-FLAC, OGG-Speex, OGG-Vorbis, OGG-Opus, AIFF, WAV,
\* TrueAudio, WavPack, APE, that the file matches, and UNKNOWN exactly when it
\* matches none.
C15_FirstMatchingFamily ==
    codec.pc = "guessed" =>
        /\ (codec.type = "UNKNOWN") <=> (Matching(codec.classes) = {})
        /\ \A i \in Matching(codec.classes) :
              (\A j \in Matching(codec.classes) : i <= j)
                  => codec.type = FamilyOrder[i]

\* A file that is both an Ogg FLAC and a FLAC file guessed as FLAC.
C15_Witness ==
    /\ codec.pc = "guessed"
    /\ codec.classes = {"OGGFLAC", "FLAC"}
    /\ codec.type = "FLAC"

(***************************************************************************)
(* Properties of the families without statistics slots                     *)
(***************************************************************************)
\* C16: on an available file of a family without play count, score and rating
\* slots (WAV, AIFF, TrueAudio, ...), SaveSongStatisticsToFile and
\* SaveSongRatingToFile return success, leave the file as it was and do not
\* call save.
C16_NoSlotIsNoOp ==
    (/\ op \in {"SaveSongStatisticsToFile", "SaveSongRatingToFile"}
     /\ fname = kPath
     /\ pre.kind \in PlainKinds) =>
        /\ ret = TRUE
        /\ disk = pre
        /\ saved = FALSE

\* Statistics that are set written to a tagged WAV file.
C16_Witness ==
    /\ op = "SaveSongStatisticsToFile"
    /\ fname = kPath
    /\ pre = Tagged("WAV")
    /\ arg.playcount > 0
    /\ arg.score > 0
    /\ ret = TRUE
    /\ saved = FALSE

(***************************************************************************)
(* Properties of the precedence of the sources                             *)
(***************************************************************************)
\* The indices of the frames of the given description with a numeric first
\* value.
PlainFrames(txxx, description) ==
    {i \in 1..Len(txxx) :
        txxx[i].description = description /\ HasNumericFirst(txxx[i].text)}

\* The first value of the last such frame.
PlainValue(txxx, description) ==
    LET last == CHOOSE i \in PlainFrames(txxx, description) :
                    \A j \in PlainFrames(txxx, description) : j <= i
    IN  ParseDecimal(Trimmed(SplitOn(txxx[last].text, ":")[1]))

\* ReadFile has just read an ID3v2 tag without a POPM frame.
ReadFMPSOnly ==
    /\ op = "ReadFile"
    /\ pre.kind = "MPEG"
    /\ pre.popm = <<>>

\* C17 (as stated): in an ID3v2 tag with a parseable FMPS_Rating (or
\* FMPS_PlayCount) frame, the rating (play count) read is that plain value,
\* in whatever order the plain and the user frames appear.
C17_PlainAlwaysWins ==
    ReadFMPSOnly =>
        /\ PlainFrames(pre.txxx, "FMPS_Rating") # {} =>
              song.rating = DecimalToF32(PlainValue(pre.txxx, "FMPS_Rating"))
        /\ PlainFrames(pre.txxx, "FMPS_PlayCount") # {} =>
              song.playcount = DecimalToInt(PlainValue(pre.txxx, "FMPS_PlayCount"))

\* C17 (amended): in an ID3v2 tag with a parseable FMPS_Rating frame whose
\* value is not -1 (FMPS_PlayCount frame whose value is not 0), the rating
\* (play count) read is that plain value, in whatever order the plain and the
\* user frames appear; a plain value of -1 (of 0) leaves the field unset, and
\* then the value read is the plain value or a user variant's value.
C17_SetPlainWins ==
    ReadFMPSOnly =>
        /\ (/\ PlainFrames(pre.txxx, "FMPS_Rating") # {}
            /\ DecimalToF32(PlainValue(pre.txxx, "FMPS_Rating")) # F32MinusOne) =>
              song.rating = DecimalToF32(PlainValue(pre.txxx, "FMPS_Rating"))
        /\ (/\ PlainFrames(pre.txxx, "FMPS_PlayCount") # {}
            /\ DecimalToInt(PlainValue(pre.txxx, "FMPS_PlayCount")) # 0) =>
              song.playcount = DecimalToInt(PlainValue(pre.txxx, "FMPS_PlayCount"))
        /\ (/\ PlainFrames(pre.txxx, "FMPS_Rating") # {}
            /\ song.rating # DecimalToF32(PlainValue(pre.txxx, "FMPS_Rating"))) =>
              \E i \in 1..Len(pre.txxx) :
                  /\ pre.txxx[i].description = "FMPS_Rating_User"
                  /\ ParseFMPSFrame("FMPS_Rating_User", pre.txxx[i].text, NewSong).rating
                        = song.rating

\* A user frame followed by a plain frame: the plain value 0.4 is read, not
\* the user value 0.8.
C17_Witness ==
    /\ ReadFMPSOnly
    /\ pre.txxx = <<Frame("FMPS_Rating_User", <<"0", ".", "6", ":", ":", "0", ".", "8">>),
                    Frame("FMPS_Rating", <<"0", ".", "4">>)>>
    /\ song.rating = ToF32(FALSE, 4, 10)

\* The record when the loop over the TXXX frames of the pass has ended: the
\* FMPS values of the tag.
AfterFMPS(f) == ParseFMPSFrames(f.txxx, NewSong)

\* ReadFile has just read an ID3v2 tag with a POPM frame.
ReadWithPOPM ==
    /\ op = "ReadFile"
    /\ pre.kind = "MPEG"
    /\ pre.popm # <<>>

\* C18: in one ReadFile pass over an ID3v2 tag, a rating, play count or score
\* the FMPS frames have set (a value greater than 0) is the value read,
\* whatever the POPM frame holds; the POPM rating byte or counter is the value
\* read only when the field was still unset (0 or less) after the FMPS frames
\* and the POPM value is greater than 0.
C18_SetFieldNotOverwritten ==
    ReadWithPOPM =>
        /\ F32GtZero(AfterFMPS(pre).rating) => song.rating = AfterFMPS(pre).rating
        /\ AfterFMPS(pre).playcount > 0 => song.playcount = AfterFMPS(pre).playcount
        /\ song.score = AfterFMPS(pre).score
        /\ song.rating # AfterFMPS(pre).rating =>
              /\ F32LeZero(AfterFMPS(pre).rating)
              /\ pre.popm[1].rating > 0
              /\ song.rating = ConvertPOPMRating(pre.popm[1].rating)
        /\ song.playcount # AfterFMPS(pre).playcount =>
              /\ AfterFMPS(pre).playcount <= 0
              /\ pre.popm[1].counter > 0
              /\ song.playcount = pre.popm[1].counter

\* A play count of 7 set by FMPS_PlayCount read next to a POPM counter of 3.
C18_Witness ==
    /\ ReadWithPOPM
    /\ pre.popm[1].counter = 3
    /\ AfterFMPS(pre).playcount = 7
    /\ song.playcount = 7

(***************************************************************************)
(* Properties of the original year                                         *)
(***************************************************************************)
OriginalYearKinds == {"MPEG", "FLAC", "ASF"} \cup XiphKinds

\* The keys of the full-date field and of the year-only field of a family.
DateKey(kind) ==
    CASE kind = "MPEG" -> "TDOR"
      [] kind = "ASF" -> kASF_OriginalDate_ID
      [] OTHER -> "ORIGINALDATE"

YearKey(kind) ==
    CASE kind = "MPEG" -> "TORY"
      [] kind = "ASF" -> kASF_OriginalYear_ID
      [] OTHER -> "ORIGINALYEAR"

\* Whether the text starts with four digits.
HasLeadingYear(t) == Len(t) >= 4 /\ AllDigits(SubSeq(t, 1, 4))

\* C19: when the full-date field (TDOR, ORIGINALDATE, WM/OriginalReleaseTime)
\* is present, originalyear is the number its leading 4 characters denote and
\* the year-only field (TORY, ORIGINALYEAR, WM/OriginalReleaseYear) is ignored:
\* the file without the year-only field reads the same; the year-only field
\* gives originalyear only when the date field is absent.
C19_DateBeforeYear ==
    (op = "ReadFile" /\ pre.kind \in OriginalYearKinds) =>
        /\ Get(pre.kv, DateKey(pre.kind)) # <<>> =>
              /\ HasLeadingYear(Front(pre.kv[DateKey(pre.kind)])) =>
                    song.originalyear =
                        DigitsValue(SubSeq(Front(pre.kv[DateKey(pre.kind)]), 1, 4))
              /\ song = ReadFile(kPath, [pre EXCEPT !.kv = Remove(@, YearKey(pre.kind))])
        /\ (/\ Get(pre.kv, DateKey(pre.kind)) = <<>>
            /\ Get(pre.kv, YearKey(pre.kind)) # <<>>
            /\ HasLeadingYear(Front(Get(pre.kv, YearKey(pre.kind))))) =>
              song.originalyear =
                  DigitsValue(SubSeq(Front(pre.kv[YearKey(pre.kind)]), 1, 4))
        /\ (/\ Get(pre.kv, DateKey(pre.kind)) = <<>>
            /\ Get(pre.kv, YearKey(pre.kind)) = <<>>) =>
              song.originalyear = -1

\* The date 2010-05 read as 2010 next to the year 1999.
C19_Witness ==
    /\ op = "ReadFile"
    /\ pre.kind \in OriginalYearKinds
    /\ Get(pre.kv, DateKey(pre.kind)) = <<<<"2", "0", "1", "0", "-", "0", "5">>>>
    /\ Get(pre.kv, YearKey(pre.kind)) = <<<<"1", "9", "9", "9">>>>
    /\ song.originalyear = 2010

(***************************************************************************)
(* Properties of the embedded art marker                                   *)
(***************************************************************************)
\* The file has an APIC frame, a picture in its Xiph or FLAC picture list, a
\* covr atom or a "COVER ART (FRONT)" item.
HasPicture(f) ==
    \/ f.kind = "MPEG" /\ f.pics # <<>>
    \/ (f.kind = "FLAC" \/ f.kind \in XiphKinds) /\ f.pics # <<>>
    \/ f.kind = "MP4" /\ Contains(f.kv, "covr")
    \/ f.kind \in ApeKinds /\ Contains(f.kv, "COVER ART (FRONT)")

\* The file has a Xiph COVERART or METADATA_BLOCK_PICTURE field.
HasPictureField(f) ==
    /\ f.kind = "FLAC" \/ f.kind \in XiphKinds
    /\ Get(f.kv, "COVERART") # <<>> \/ Get(f.kv, "METADATA_BLOCK_PICTURE") # <<>>

\* C20: ReadFile marks the art as embedded whenever the file has an APIC
\* frame, a non-empty Xiph or FLAC picture list, an MP4 covr atom or an APE
\* "COVER ART (FRONT)" item, and leaves the mark unset when the file has none
\* of these and no Xiph COVERART or METADATA_BLOCK_PICTURE field.
C20_EmbeddedArtMarker ==
    (op = "ReadFile" /\ pre.kind # "NONE") =>
        /\ HasPicture(pre) => song.art_automatic = kEmbeddedCover
        /\ (~HasPicture(pre) /\ ~HasPictureField(pre)) => song.art_automatic = Empty

\* A FLAC file with a picture and no picture field read as having embedded
\* art.
C20_Witness ==
    /\ op = "ReadFile"
    /\ pre.kind = "FLAC"
    /\ pre.pics # <<>>
    /\ ~HasPictureField(pre)
    /\ song.art_automatic = kEmbeddedCover

(***************************************************************************)
(* Properties of LoadEmbeddedArt                                           *)
(***************************************************************************)
\* The families whose tag holds a list of pictures.
PictureKinds == {"MPEG", "FLAC"} \cup XiphKinds

HasFrontCover(pics) == \E i \in 1..Len(pics) : pics[i].type = "FrontCover"

\* C21: LoadEmbeddedArt on an ID3v2, Xiph or FLAC file with pictures returns
\* the bytes of a picture of type front cover when the list has one, and the
\* bytes of the first picture of the list otherwise.
C21_FrontCoverPreferred ==
    (op = "LoadEmbeddedArt" /\ fname = kPath /\ pre.kind \in PictureKinds /\ pre.pics # <<>>)
        => IF HasFrontCover(pre.pics)
           THEN \E i \in 1..Len(pre.pics) :
                   pre.pics[i].type = "FrontCover" /\ art = pre.pics[i].data
           ELSE art = pre.pics[1].data

(***************************************************************************)
(* Properties of the ID3v2 frame operations                                *)
(***************************************************************************)
\* The identifiers SaveFile hands to SetTextFrame and SetUnsyncLyricsFrame.
SavedTextIds == {"TPOS", "TBPM", "TCOM", "TIT1", "TOPE", "USLT", "TPE2", "TCMP"}

\* The value SaveFile hands over for each of them.
SavedText(id, s) ==
    CASE id = "TPOS" -> IF s.disc <= 0 THEN <<>> ELSE NumberInt(s.disc)
      [] id = "TBPM" -> IF F32Leq(s.bpm, F32MinusOne) THEN <<>> ELSE NumberF32(s.bpm)
      [] id = "TCOM" -> s.composer
      [] id = "TIT1" -> s.grouping
      [] id = "TOPE" -> s.performer
      [] id = "USLT" -> s.lyrics
      [] id = "TPE2" -> s.albumartist
      [] id = "TCMP" -> IF s.compilation THEN NumberInt(1) ELSE <<>>

\* SaveFile has just saved an ID3v2 tag.
SavedID3v2 == op = "SaveFile" /\ fname = kPath /\ pre.kind = "MPEG" /\ ret = TRUE

\* C22: after SetTextFrame(id, value, tag) (and SetUnsyncLyricsFrame) on a tag
\* that held n >= 1 frames with that identifier, the tag holds n frames with
\* it in the old order, the first with text = value and the others with their
\* old content; on a tag that held none, it holds one frame with text = value;
\* the frames with any other identifier are as they were.
C22_TextFramesKept ==
    SavedID3v2 =>
        /\ \A id \in SavedTextIds :
              IF Get(pre.kv, id) = <<>>
              THEN Get(disk.kv, id) = <<SavedText(id, arg)>>
              ELSE /\ Len(Get(disk.kv, id)) = Len(pre.kv[id])
                   /\ disk.kv[id][1] = SavedText(id, arg)
                   /\ \A i \in 2..Len(pre.kv[id]) : disk.kv[id][i] = pre.kv[id][i]
        /\ \A id \in (DOMAIN pre.kv \cup DOMAIN disk.kv) \ SavedTextIds :
              Get(disk.kv, id) = Get(pre.kv, id)

\* A tag with two TCOM frames, no TIT1 frame and a TDOR frame has been saved:
\* the second TCOM frame and the TDOR frame are the old ones, the first TCOM
\* frame and the new TIT1 frame carry the record's values.
C22_Witness ==
    /\ SavedID3v2
    /\ Len(Get(pre.kv, "TCOM")) = 2
    /\ Get(pre.kv, "TIT1") = <<>>
    /\ arg.composer = <<"g">> /\ arg.grouping = <<"i">>
    /\ disk.kv["TCOM"] = <<<<"g">>, pre.kv["TCOM"][2]>>
    /\ disk.kv["TIT1"] = <<<<"i">>>>
    /\ Contains(pre.kv, "TDOR") /\ disk.kv["TDOR"] = pre.kv["TDOR"]

(***************************************************************************)
(* Properties of malformed FMPS frames                                     *)
(***************************************************************************)
\* The frame list without its i-th frame.
WithoutFrame(frames, i) == SubSeq(frames, 1, i - 1) \o SubSeq(frames, i + 1, Len(frames))

\* An FMPS frame whose text the parser rejects or parses to nothing.
Malformed(frame) ==
    /\ StartsWithFMPS(frame.description)
    /\ ~FMPSParse(frame.text).ok \/ FMPSParse(frame.text).result = <<>>

\* C23: when the text of an FMPS frame of an ID3v2 tag does not parse, ReadFile
\* succeeds and returns the record it returns for the same tag without that
\* frame: the other FMPS frames, the POPM frame and the descriptive fields are
\* resolved as if the frame were absent.
C23_MalformedIsAbsent ==
    (op = "ReadFile" /\ pre.kind = "MPEG") =>
        \A i \in 1..Len(pre.txxx) :
            Malformed(pre.txxx[i]) =>
                /\ song.valid
                /\ song = ReadFile(kPath, [pre EXCEPT !.txxx = WithoutFrame(pre.txxx, i)])

\* A malformed FMPS_Rating frame after a well-formed one, with a POPM frame
\* that supplies the play count: the rating of the first frame stays.
C23_Witness ==
    /\ op = "ReadFile"
    /\ pre.kind = "MPEG"
    /\ Len(pre.txxx) = 2
    /\ pre.txxx[1] = Frame("FMPS_Rating", <<"0", ".", "4">>)
    /\ pre.txxx[2].description = "FMPS_Rating"
    /\ Malformed(pre.txxx[2])
    /\ pre.popm = <<Popm(0, 3)>>
    /\ song.rating = ToF32(FALSE, 4, 10)
    /\ song.playcount = 3

(***************************************************************************)
(* Properties of repeated saves                                            *)
(***************************************************************************)
\* The families with a rating slot.
RatingKinds == {"MPEG"} \cup KeyedKinds

\* The number of values in the FMPS rating slot of the file.
RatingSlotSize(f) ==
    IF f.kind = "MPEG"
    THEN Cardinality({i \in 1..Len(f.txxx) : f.txxx[i].description = "FMPS_Rating"})
    ELSE Len(Get(f.kv, RatingKey(f.kind)))

\* SaveSongRatingToFile has just saved a rating in (0, 1].
SavedRating ==
    /\ op = "SaveSongRatingToFile"
    /\ fname = kPath
    /\ pre.kind \in RatingKinds
    /\ ret = TRUE
    /\ ~F32LeZero(arg.rating) /\ F32Leq(arg.rating, F32One)

\* C24: after every successful SaveSongRatingToFile with a rating in (0, 1],
\* whatever was saved into the file before, ReadFile returns that rating and
\* the FMPS rating slot of the family holds exactly one value.
C24_LastRatingWins ==
    SavedRating =>
        /\ ReadFile(kPath, disk).rating = arg.rating
        /\ RatingSlotSize(disk) = 1

\* SaveSongStatisticsToFile has just saved a play count >= 0 and a score in
\* 0..100 into a file of a family with statistics slots.
SavedStatistics ==
    /\ op = "SaveSongStatisticsToFile"
    /\ fname = kPath
    /\ pre.kind \in RatingKinds
    /\ ret = TRUE
    /\ arg.playcount >= 0
    /\ arg.score \in 0..100

\* C25: after a successful SaveSongStatisticsToFile with play count p >= 0 and
\* score s in 0..100, ReadFile returns play count p and score s, also when p
\* or s is 0 and the file held a play count or score that is not 0.
C25_StatisticsRoundTrip ==
    SavedStatistics =>
        /\ ReadFile(kPath, disk).playcount = arg.playcount
        /\ ReadFile(kPath, disk).score = arg.score

(***************************************************************************)
(* Properties of the POPM frame                                            *)
(***************************************************************************)
\* The counter and the rating byte of the first POPM frame, 0 without one.
PopmCounter(f) == IF f.popm = <<>> THEN 0 ELSE f.popm[1].counter

PopmRating(f) == IF f.popm = <<>> THEN 0 ELSE f.popm[1].rating

\* A statistics or rating save has just succeeded on an ID3v2 tag with at most
\* one POPM frame.
SavedPopm ==
    /\ op \in {"SaveSongStatisticsToFile", "SaveSongRatingToFile"}
    /\ fname = kPath
    /\ ret = TRUE
    /\ pre.kind = "MPEG"
    /\ Len(pre.popm) <= 1

\* C26: a statistics or rating save on an ID3v2 tag with at most one POPM
\* frame leaves at most one POPM frame: an existing frame is reused and a frame
\* is added only when there is none.  A statistics save with a play count
\* other than 0 sets the frame's counter and keeps its rating byte, a rating
\* save sets its rating byte and keeps its counter, so after any sequence of
\* them the frame carries the last counter and the last rating byte.
C26_SinglePopmFrame ==
    SavedPopm =>
        /\ Len(disk.popm) <= 1
        /\ (op = "SaveSongStatisticsToFile" /\ arg.playcount # 0) =>
              disk.popm = <<Popm(PopmRating(pre), arg.playcount)>>
        /\ (op = "SaveSongStatisticsToFile" /\ arg.playcount = 0) =>
              disk.popm = pre.popm
        /\ (op = "SaveSongRatingToFile" /\ ~F32LtZero(arg.rating)) =>
              disk.popm = <<Popm(ConvertToPOPMRating(arg.rating), PopmCounter(pre))>>
        /\ (op = "SaveSongRatingToFile" /\ F32LtZero(arg.rating)) =>
              disk.popm = pre.popm

\* A rating save after a statistics save on a tag without POPM frame: the one
\* frame carries the counter of the first and the rating byte of the second.
C26_Witness ==
    /\ SavedPopm
    /\ n = 2
    /\ op = "SaveSongRatingToFile"
    /\ arg.rating = ToF32(FALSE, 4, 10)
    /\ pre.popm = <<Popm(0, 5)>>
    /\ disk.popm = <<Popm(64, 5)>>

(***************************************************************************)
(* Properties of SetUserTextFrame                                          *)
(***************************************************************************)
\* The TXXX frames of the list with the given description, in list order.
FramesOf(txxx, description) ==
    SelectSeq(txxx, LAMBDA frame : frame.description = description)

\* The descriptions the last operation handed to SetUserTextFrame.
WrittenDescriptions ==
    IF op = "SaveSongRatingToFile" /\ ~F32LtZero(arg.rating) THEN {"FMPS_Rating"}
    ELSE IF op = "SaveSongStatisticsToFile"
    THEN (IF arg.playcount # 0 THEN {"FMPS_PlayCount"} ELSE {})
            \cup (IF arg.score # 0 THEN {"FMPS_Rating_Amarok_Score"} ELSE {})
    ELSE {}

\* The frame it built for each of them.
WrittenFrame(description) ==
    Frame(description,
          CASE description = "FMPS_Rating" -> NumberF32(arg.rating)
            [] description = "FMPS_PlayCount" -> NumberInt(arg.playcount)
            [] description = "FMPS_Rating_Amarok_Score" -> NumberHundredths(arg.score))

\* A statistics or rating save has just succeeded on an ID3v2 tag.
SavedUserText ==
    /\ op \in {"SaveSongStatisticsToFile", "SaveSongRatingToFile"}
    /\ fname = kPath
    /\ ret = TRUE
    /\ pre.kind = "MPEG"

\* The TXXX frames with descriptions that were not written are as they were.
OtherFramesKept ==
    SelectSeq(disk.txxx, LAMBDA frame : frame.description \notin WrittenDescriptions)
        = SelectSeq(pre.txxx, LAMBDA frame : frame.description \notin WrittenDescriptions)

\* C27 (as stated): after SetUserTextFrame(description, value, tag) the tag
\* holds exactly one TXXX frame with that description, with text = value,
\* whatever it held before, and the other TXXX frames are unchanged.
C27_ExactlyOneFrame ==
    SavedUserText =>
        /\ \A d \in WrittenDescriptions : FramesOf(disk.txxx, d) = <<WrittenFrame(d)>>
        /\ OtherFramesKept

\* C27: after SetUserTextFrame(description, value, tag) on a tag that held no
\* frame or one frame with that description, the tag holds exactly one such
\* frame, with text = value; on a tag that held several, only the first of
\* them is removed and the new frame is added after the remaining ones.  The
\* TXXX frames with other descriptions are unchanged.
C27_FirstFrameReplaced ==
    SavedUserText =>
        /\ \A d \in WrittenDescriptions :
              /\ Len(FramesOf(pre.txxx, d)) <= 1 =>
                    FramesOf(disk.txxx, d) = <<WrittenFrame(d)>>
              /\ Len(FramesOf(pre.txxx, d)) >= 2 =>
                    FramesOf(disk.txxx, d)
                        = Tail(FramesOf(pre.txxx, d)) \o <<WrittenFrame(d)>>
        /\ OtherFramesKept

\* A rating saved into a tag with two FMPS_Rating frames: the second of them
\* is still there, before the new frame.
C27_Witness ==
    /\ SavedUserText
    /\ op = "SaveSongRatingToFile"
    /\ arg.rating = ToF32(FALSE, 4, 10)
    /\ pre = TaggedTwice
    /\ FramesOf(disk.txxx, "FMPS_Rating")
          = <<Frame("FMPS_Rating", <<"0", ".", "8">>), Frame("FMPS_Rating", <<"0", ".", "4">>)>>

(***************************************************************************)
(* Properties of the APE read path                                         *)
(***************************************************************************)
\* C28: ReadFile on an APE, MPC or WavPack file takes the performer only from
\* the PERFORMER item and the bpm only from the BPM item: with a BPM item and
\* no PERFORMER item the performer is empty, and the bpm is the number of the
\* BPM item (120.5 for the text 120.5).
C28_ApeOwnItems ==
    (/\ op = "ReadFile"
     /\ pre.kind \in ApeKinds
     /\ Contains(pre.kv, "BPM")
     /\ ~Contains(pre.kv, "PERFORMER")) =>
        /\ song.performer = Empty
        /\ pre.kv["BPM"] = <<<<"1", "2", "0", ".", "5">>>> => song.bpm = ToF32(FALSE, 1205, 10)

====
